---------------------------- MODULE Spec2Model ----------------------------
(***************************************************************************)
(* necko3-core: the on-chain payment pipeline.                             *)
(*                                                                         *)
(* One chain is modelled.  The durable store is the relational backend     *)
(* (db/postgres.rs); the tasks are the chain ingestor (chain/evm.rs), the  *)
(* invoice watcher, the confirmator and the janitor (state/*.rs).  Every   *)
(* task is cut at its suspension points (.await): one action per stretch   *)
(* of code between two awaits.                                             *)
(***************************************************************************)
EXTENDS Naturals, Sequences, FiniteSets

(***************************************************************************)
(* Bounds of the model.                                                    *)
(***************************************************************************)
MaxBusyLen == 3        \* longest busy-index list handed to get_free_slot
MaxBusyIndex == 3      \* largest index in such a list
MaxInvoices == 2       \* invoice creation requests in one behaviour (SpecReuse, SpecCreate)
MaxTip == 2            \* blocks mined in one behaviour
MaxTransfers == 2      \* transfers broadcast in one behaviour
MaxCrashes == 1        \* process crashes in one behaviour
MaxStops == 1          \* stop_listening calls in one behaviour
MaxConfirmations == 1  \* largest required_confirmations of the chain
MaxLag == 1            \* largest block_lag of the chain
MaxAttempts == 3       \* add_payment_attempt calls in one behaviour (SpecAttempt)
MaxJobs == 1           \* webhook jobs enqueued in one behaviour (SpecWebhook)
MaxLeaseJobs == 2      \* webhook jobs enqueued in one behaviour (SpecLease)
MaxDelivered == 1      \* jobs whose deliveries return in one behaviour (SpecLease)
MaxLeasePosts == 2     \* POSTs of one job in one behaviour (SpecLease)
MaxAmount == 3         \* largest amount_raw of the invoice (SpecFinalize)
AddrLen == 2           \* hex digits of an address (SpecAddress)
MaxStarters == 2       \* concurrent callers of start_listening (SpecSupervisor)
MaxTasks == 3          \* listener tasks spawned in one behaviour (SpecSupervisor)
MaxRestarts == 1       \* restarts of a dispatcher instance in one behaviour (SpecLease)

(***************************************************************************)
(* Program constants.                                                      *)
(***************************************************************************)
MaxLogRetries == 15    \* process_logs: let max_retries = 15
ChannelCapacity == 100 \* mpsc::channel(100)
PersistEvery == 10     \* last_block_num % 10 == 0
LeaseLimit == 50       \* LIMIT 50, take(50)
MaxRetries == 10       \* webhooks.max_retries of a new job

VARIABLES
    \* ---- durable store (tables of the relational backend)
    invoices,          \* table invoices: sequence of rows, id = position
    payments,          \* table payments: sequence of rows, id = position
    webhooks,          \* table webhooks: sequence of rows, in insertion order
    lpb_db,            \* chains.last_processed_block
    required_confirmations, \* chains.required_confirmations
    block_lag,         \* chains.block_lag
    \* ---- in-memory state of the process
    lpb,               \* ChainConfig.last_processed_block (cache)
    watch_addresses,   \* ChainConfig.watch_addresses (cache)
    chan,              \* the event channel, ingestor -> watcher
    active,            \* active_chains holds a task handle for the chain
    ing,               \* the ingestor task (EvmBlockchain::listen)
    wat,               \* the watcher task
    conf,              \* the confirmator task
    jan,               \* the janitor task
    cre,               \* invoice creations in flight (callers of get_free_slot)
    \* ---- environment
    base,              \* the number of the node's last block when the behaviour starts
    chain,             \* the blocks mined since: chain[k] = transfers of block base + k
    crashes,           \* process crashes so far
    stops,             \* stop_listening calls so far
    \* ---- history
    start_block,       \* the block the ingestion started after: the initial
                       \* last_processed_block or, when that is 0, the first tip adopted
    completed,         \* blocks whose processing ran to its end
    matched,           \* <<b, n>>: transfer n matched the watch-set of a completed pass of b
    emitted,           \* <<b, n>>: a Payment Event for transfer n of block b was sent
    credits,           \* the finalize_payment calls that added to paid_raw, in order
    rpc_failed,        \* the ingestor's last RPC call failed (it is retrying)
    \* ---- get_free_slot taken alone (SpecSlot)
    slot_busy,         \* the answer of get_busy_indexes: Err or Ok(list)
    slot_result,       \* what get_free_slot returned: None or Some(i)
    slot_called,       \* get_free_slot has returned
    \* ---- add_payment_attempt taken alone (SpecAttempt)
    att_keys,          \* the (invoice_id, tx_hash, log_index) of the calls so far, in order
    \* ---- the webhook dispatcher and its clock
    now,               \* the clock, in seconds (Utc::now(), NOW())
    disp,              \* the callers of select_webhooks_job (dispatcher loops)
    tasks,             \* the process_webhook tasks that were spawned and have not returned
    posts,             \* history: posts[j] = the number of POSTs of job j so far
    \* ---- configuration
    backend,           \* Database::Postgres or Database::Mock
    payers,            \* the transfers that payers broadcast in this behaviour
    \* ---- the receiving end of the event channel
    rx_open,           \* the Receiver of the event channel has not been dropped
    \* ---- finalize_payment taken alone (SpecFinalize)
    fin,               \* the concurrent calls of finalize_payment
    \* ---- the two backends side by side (SpecBackends)
    mock,              \* the maps of a MockDatabase: [invoices, payments, webhooks]
    ret,               \* what the last call returned: <<relational, mock>>
    reqs,              \* history: the webhook requests sent, with their answers
    logq,              \* process_logs: its retry counter and the reverted calls on the chain
    sup,               \* the supervisor: active_chains, the listener tasks, the API calls
    lk                 \* the cache locks: the guards each task holds and its steps to come

store_vars == <<invoices, payments, webhooks, lpb_db, required_confirmations, block_lag>>
proc_vars == <<lpb, watch_addresses, chan, active, ing, wat, conf, jan, cre>>
env_vars == <<base, chain, crashes, stops>>
hist_vars == <<start_block, completed, matched, emitted, credits, rpc_failed>>
pure_vars == <<slot_busy, slot_result, slot_called, att_keys>>
hook_vars == <<now, disp, tasks, posts>>
cfg_vars == <<backend, payers>>
aux_vars == <<rx_open, fin, mock, ret, reqs, logq, sup, lk>>
vars == <<store_vars, proc_vars, env_vars, hist_vars, pure_vars, hook_vars, cfg_vars, aux_vars>>

\* Option<T>: None, Some(x)
None == <<>>
Some(x) == <<x>>
\* Result<Vec<u32>>: Err(e), Ok(list)
Err == [ok |-> FALSE, list |-> <<>>]
Ok(list) == [ok |-> TRUE, list |-> list]

Range(s) == {s[i] : i \in 1..Len(s)}

RECURSIVE SeqsUpTo(_, _)
SeqsUpTo(S, n) ==
    IF n = 0 THEN {<<>>}
    ELSE LET shorter == SeqsUpTo(S, n - 1)
         IN  shorter \cup {Append(s, x) : s \in shorter, x \in S}

(***************************************************************************)
(* AppState::get_free_slot (state/mod.rs).  `answer` is what               *)
(* get_busy_indexes returned: Err, or the list of busy indexes.            *)
(***************************************************************************)
RECURSIVE free_slot_loop(_, _)
free_slot_loop(busy_indexes, i) ==
    IF i > Len(busy_indexes) THEN None                  \* for i in 0..=len
    ELSE IF i \notin Range(busy_indexes) THEN Some(i)   \* !contains(&i)
    ELSE free_slot_loop(busy_indexes, i + 1)

get_free_slot_exclusive(answer) ==
    \* the loop runs over 0..len instead of 0..=len
    IF ~answer.ok THEN None
    ELSE IF \E i \in 0..(Len(answer.list) - 1) : i \notin Range(answer.list)
         THEN free_slot_loop(answer.list, 0)
         ELSE None

get_free_slot(answer) ==
    IF ~answer.ok THEN None                 \* Err(e) => return None
    ELSE free_slot_loop(answer.list, 0)

(***************************************************************************)
(* Store: invoices.                                                        *)
(***************************************************************************)
\* Postgres::get_busy_indexes: address_index of the Pending rows.
RECURSIVE busy_of(_, _)
busy_of(invs, n) ==
    IF n = 0 THEN <<>>
    ELSE IF invs[n].status = "Pending"
         THEN Append(busy_of(invs, n - 1), invs[n].address_index)
         ELSE busy_of(invs, n - 1)

get_busy_indexes(invs) == busy_of(invs, Len(invs))

(***************************************************************************)
(* Store: payments.                                                        *)
(***************************************************************************)
\* The rows an INSERT with these values conflicts with.
\* ON CONFLICT (invoice_id, tx_hash): log_index is not part of the key.
conflict_rows(pays, invoice_id, tx_hash, log_index) ==
    {p \in 1..Len(pays) : pays[p].invoice_id = invoice_id /\ pays[p].tx_hash = tx_hash}

\* Postgres::add_payment_attempt: INSERT ... 'Confirming'
\*   ON CONFLICT (invoice_id, tx_hash) DO UPDATE SET block_number = excluded.block_number
add_payment_attempt(pays, invoice_id, to, tx_hash, amount_raw, block_number, log_index) ==
    LET hit == conflict_rows(pays, invoice_id, tx_hash, log_index)
    IN  IF hit # {}
        THEN [p \in 1..Len(pays) |->
                 IF p \in hit THEN [pays[p] EXCEPT !.block_number = block_number]
                 ELSE pays[p]]
        ELSE Append(pays, [invoice_id |-> invoice_id, to |-> to, tx_hash |-> tx_hash,
                           amount_raw |-> amount_raw, block_number |-> block_number,
                           status |-> "Confirming"])

\* MockDatabase::add_payment_attempt: the map of payments is keyed by
\* invoice_id; a call for an invoice that has an entry sets block_number of
\* that entry and inserts nothing
mock_add_payment_attempt(pays, invoice_id, to, tx_hash, amount_raw, block_number) ==
    LET hit == {p \in 1..Len(pays) : pays[p].invoice_id = invoice_id}
    IN  IF hit # {}
        THEN [p \in 1..Len(pays) |->
                 IF p \in hit THEN [pays[p] EXCEPT !.block_number = block_number]
                 ELSE pays[p]]
        ELSE Append(pays, [invoice_id |-> invoice_id, to |-> to, tx_hash |-> tx_hash,
                           amount_raw |-> amount_raw, block_number |-> block_number,
                           status |-> "Confirming"])

\* Database::add_payment_attempt: the call goes to the backend in use
db_add_payment_attempt(pays, invoice_id, to, tx_hash, amount_raw, block_number, log_index) ==
    IF backend = "mock"
    THEN mock_add_payment_attempt(pays, invoice_id, to, tx_hash, amount_raw, block_number)
    ELSE add_payment_attempt(pays, invoice_id, to, tx_hash, amount_raw, block_number,
                             log_index)

\* an update_payment_block that leaves the row as it is
update_payment_block_none(pays, id, block_num) == pays

\* Postgres::update_payment_block: UPDATE payments SET block_number = $1 WHERE id = $2
update_payment_block(pays, id, block_num) ==
    [pays EXCEPT ![id].block_number = block_num]

\* Postgres::get_confirming_payments: the ids of the Confirming rows, with
\* the block_number each row holds when the query runs.
RECURSIVE confirming_of(_, _)
confirming_of(pays, n) ==
    IF n = 0 THEN <<>>
    ELSE IF pays[n].status = "Confirming"
         THEN Append(confirming_of(pays, n - 1),
                     [id |-> n, block_number |-> pays[n].block_number])
         ELSE confirming_of(pays, n - 1)

get_confirming_payments(pays) == confirming_of(pays, Len(pays))

\* a finalize_payment that marks the payment and leaves the invoice as it is
finalize_payment_nocredit(pays, invs, id) == invs

\* Postgres::finalize_payment, one transaction:
\*   UPDATE payments SET status = 'Confirmed' WHERE id = $1
finalize_payment_payments(pays, id) ==
    [pays EXCEPT ![id].status = "Confirmed"]

\* a threshold that an exact payment does not reach
is_fully_paid_strict(inv_paid_raw, inv_amount_raw) == inv_paid_raw > inv_amount_raw

\*   let is_fully_paid = inv_paid_raw >= inv_amount_raw;
\* (MockDatabase: if inv.paid_raw >= inv.amount_raw)
is_fully_paid(inv_paid_raw, inv_amount_raw) == inv_paid_raw >= inv_amount_raw

\*   UPDATE invoices SET paid_raw = paid_raw + $1 WHERE id = $2
\*   if is_fully_paid: UPDATE invoices SET status = 'Paid' WHERE id = $1
finalize_payment_invoices(pays, invs, id) ==
    LET inv_id == pays[id].invoice_id
        paid == invs[inv_id].paid_raw + pays[id].amount_raw
    IN  [invs EXCEPT ![inv_id].paid_raw = paid,
                     ![inv_id].status =
                         IF is_fully_paid(paid, invs[inv_id].amount_raw) THEN "Paid" ELSE @]

\*   Ok(is_fully_paid)
finalize_payment_result(pays, invs, id) ==
    LET inv_id == pays[id].invoice_id
    IN  is_fully_paid(invs[inv_id].paid_raw + pays[id].amount_raw, invs[inv_id].amount_raw)

\* Postgres::expire_old_invoices:
\*   UPDATE invoices SET status = 'Expired'
\*   WHERE status = 'Pending' AND expires_at <= now() RETURNING id, network, address
\* `due` is the set of rows whose expires_at <= now() when the statement runs.
\* a WHERE clause that lacks status = 'Pending'
expired_ids_any(invs, due) == {i \in 1..Len(invs) : i \in due}

expired_ids(invs, due) ==
    {i \in 1..Len(invs) : invs[i].status = "Pending" /\ i \in due}

expire_old_invoices(invs, due) ==
    [i \in 1..Len(invs) |->
        IF i \in expired_ids(invs, due) THEN [invs[i] EXCEPT !.status = "Expired"]
        ELSE invs[i]]

\* Postgres::get_pending_invoice_by_address: the rows the query selects
\*   WHERE network = $1 AND address = $2 AND status = 'Pending'
\* (fetch_optional returns one of them)
\* a lookup that takes an invoice of any status
get_invoice_by_address(invs, address) ==
    {i \in 1..Len(invs) : invs[i].address = address}

get_pending_invoice_by_address(invs, address) ==
    {i \in 1..Len(invs) : invs[i].address = address /\ invs[i].status = "Pending"}

\* Postgres::add_webhook_job: a job is inserted for an invoice with a
\* webhook_url; event = [event_type, tx_hash, confirmations] (confirmations is
\* the field of TxConfirmed, None in the other events).  The new row is Pending with
\* attempts = 0, max_retries = 10 and next_retry = the time of the insertion.
add_webhook_job(hooks, invs, invoice_id, event) ==
    IF invoice_id \in 1..Len(invs) /\ invs[invoice_id].webhook_url
    THEN Append(hooks, [invoice_id |-> invoice_id, event_type |-> event.event_type,
                        tx_hash |-> event.tx_hash, confirmations |-> event.confirmations,
                        status |-> "Pending", attempts |-> 0,
                        max_retries |-> MaxRetries, next_retry |-> now])
    ELSE hooks

\* Postgres::init: the watch-set is seeded from the Pending invoices
seed_watch_addresses(invs) ==
    {invs[i].address : i \in {j \in 1..Len(invs) : invs[j].status = "Pending"}}

\* a startup that leaves the webhooks table as it finds it
recover_webhooks_none(hooks) == hooks

\* Postgres::init: UPDATE webhooks SET status = 'Pending' WHERE status = 'Processing'
recover_webhooks(hooks) ==
    [h \in 1..Len(hooks) |->
        IF hooks[h].status = "Processing" THEN [hooks[h] EXCEPT !.status = "Pending"]
        ELSE hooks[h]]

(***************************************************************************)
(* The chain.  EvmBlockchain::derive_address is a deterministic function   *)
(* of the index; distinct indexes give distinct addresses.                 *)
(***************************************************************************)
derive_address(index) == <<"0x", index>>

NativeSymbol == "ETH"
TokenSymbol == "TOK"
Tokens == {NativeSymbol, TokenSymbol}

\* The transfers that payers broadcast: odd n is a native transfer of 1,
\* even n a Transfer log of 2 of the token contract.
Transfer(n) ==
    [n |-> n,
     tx_hash |-> n,
     log_index |-> IF n % 2 = 0 THEN Some(0) ELSE None,
     token |-> IF n % 2 = 0 THEN TokenSymbol ELSE NativeSymbol,
     to |-> derive_address(0),
     amount_raw |-> IF n % 2 = 0 THEN 2 ELSE 1]

TransferIds == 1..MaxTransfers
Mined == UNION {chain[k] : k \in 1..Len(chain)}
tip == base + Len(chain)                    \* eth_blockNumber
BlockTxs(b) == chain[b - base]              \* eth_getBlockByNumber(b, true)

\* the block a mined transaction is in (eth_getTransactionReceipt)
BlockOf(n) == base + (CHOOSE k \in 1..Len(chain) : n \in chain[k])

\* the members of a set of transfer numbers in ascending order
RECURSIVE InOrder(_)
InOrder(S) ==
    IF S = {} THEN <<>>
    ELSE LET m == CHOOSE x \in S : \A y \in S : x <= y
         IN  <<m>> \o InOrder(S \ {m})

\* PaymentEvent for transfer n seen in block b
PaymentEvent(n, b) ==
    [n |-> n, tx_hash |-> Transfer(n).tx_hash, to |-> Transfer(n).to,
     token |-> Transfer(n).token, amount_raw |-> Transfer(n).amount_raw,
     block_number |-> b, log_index |-> Transfer(n).log_index]

\* EvmBlockchain::process_transactions: the native transfers of the block
\* whose `to` is in the snapshot and whose value is > 0, in block order
process_transactions(transactions, addresses) ==
    {n \in transactions : /\ Transfer(n).log_index = None
                          /\ Transfer(n).to \in addresses
                          /\ Transfer(n).amount_raw > 0}

\* EvmBlockchain::process_logs: the Transfer logs (of the known token
\* contracts) that get_logs returned and whose `to` is in the snapshot
process_logs(logs, addresses) ==
    {n \in logs : Transfer(n).log_index # None /\ Transfer(n).to \in addresses}

\* the logs of block b as the node holds them
LogsOf(b) == {n \in BlockTxs(b) : Transfer(n).log_index # None}

\* EvmBlockchain::listen: after block b,
\*   if last_block_num % 10 == 0 || last_block_num == current_block_num
persist_due(b, current) == b % PersistEvery = 0 \/ b = current

(***************************************************************************)
(* Environment: the node mines blocks.                                     *)
(***************************************************************************)
MineBlock ==
    /\ Len(chain) < MaxTip
    /\ \E txs \in SUBSET (payers \ Mined) :
           chain' = Append(chain, txs)
    /\ UNCHANGED <<store_vars, proc_vars, base, crashes, stops, hist_vars, pure_vars,
                   hook_vars, cfg_vars, aux_vars>>

\* The chain reorganizes: the node's last block is replaced by a block that
\* lacks some of its transactions; they are pending again and may be mined
\* in a later block.
Reorg ==
    /\ chain # <<>>
    /\ \E dropped \in SUBSET chain[Len(chain)] :
           /\ dropped # {}
           /\ chain' = [chain EXCEPT ![Len(chain)] = @ \ dropped]
    /\ UNCHANGED <<store_vars, proc_vars, base, crashes, stops, hist_vars, pure_vars,
                   hook_vars, cfg_vars, aux_vars>>

(***************************************************************************)
(* Invoice creation.  cre[k] is one request of a caller: it takes          *)
(* get_free_slot, then add_invoice with the address derived from the slot, *)
(* then add_watch_address.                                                 *)
(*   pc: "idle" (not yet issued), "slot", "added", "done"                  *)
(***************************************************************************)
CreIdle == [pc |-> "idle", slot |-> 0, id |-> 0]

\* AppState::get_free_slot over Postgres::get_busy_indexes
CreateGetSlot(k) ==
    /\ cre[k].pc = "idle"
    /\ LET slot == get_free_slot(Ok(get_busy_indexes(invoices)))
       IN  /\ slot # None
           /\ cre' = [cre EXCEPT ![k] = [pc |-> "slot", slot |-> slot[1], id |-> 0]]
    /\ UNCHANGED <<store_vars, lpb, watch_addresses, chan, active, ing, wat, conf, jan,
                   env_vars, hist_vars, pure_vars,
                   hook_vars, cfg_vars, aux_vars>>

\* Postgres::add_invoice: INSERT INTO invoices (a fresh uuid: no DuplicateId)
add_invoice(invs, invoice) == Append(invs, invoice)

CreateAddInvoice(k) ==
    /\ cre[k].pc = "slot"
    /\ \E token \in Tokens :
           invoices' = add_invoice(invoices,
               [address_index |-> cre[k].slot, address |-> derive_address(cre[k].slot),
                token |-> token, amount_raw |-> 2, paid_raw |-> 0,
                status |-> "Pending", webhook_url |-> TRUE])
    /\ cre' = [cre EXCEPT ![k].pc = "added", ![k].id = Len(invoices) + 1]
    /\ UNCHANGED <<payments, webhooks, lpb_db, required_confirmations, block_lag,
                   lpb, watch_addresses, chan, active, ing, wat, conf, jan,
                   env_vars, hist_vars, pure_vars,
                   hook_vars, cfg_vars, aux_vars>>

\* Postgres::add_watch_address
add_watch_address(watch, address) == watch \cup {address}

\* a removal that leaves the watch-set as it finds it
remove_watch_address_none(watch, address) == watch

remove_watch_address(watch, address) == watch \ {address}
remove_watch_addresses_bulk(watch, addresses) == watch \ addresses

CreateAddWatch(k) ==
    /\ cre[k].pc = "added"
    /\ watch_addresses' = add_watch_address(watch_addresses, derive_address(cre[k].slot))
    /\ cre' = [cre EXCEPT ![k].pc = "done"]
    /\ UNCHANGED <<store_vars, lpb, chan, active, ing, wat, conf, jan,
                   env_vars, hist_vars, pure_vars,
                   hook_vars, cfg_vars, aux_vars>>

(***************************************************************************)
(* The chain ingestor: EvmBlockchain::listen, one action per await.        *)
(*   pc: "none" (no task), "begin", "tip0", "tip0_retry", "dead" (listen   *)
(*   returned Err), "poll", "fetch", "native", "logs", "persist"           *)
(*   at_start (history): the watch-set when the loop body of block_num     *)
(*   began                                                                 *)
(***************************************************************************)
IngNone == [pc |-> "none", last_block_num |-> 0, current_block_num |-> 0,
            block_num |-> 0, address_set |-> {}, at_start |-> {}]
IngBegin == [IngNone EXCEPT !.pc = "begin"]

\* invoices that are Pending at the address of transfer n, with its token
PendingFor(n) ==
    {i \in 1..Len(invoices) : /\ invoices[i].status = "Pending"
                              /\ invoices[i].address = Transfer(n).to
                              /\ invoices[i].token = Transfer(n).token}

\* sender.send(event).await for the transfers ns of block b, in order;
\* when the Receiver was dropped every send returns Err, which is logged
\* ("Failed to send payment event via channel")
Send(ns, b) ==
    IF rx_open
    THEN /\ Len(chan) + Cardinality(ns) <= ChannelCapacity
         /\ chan' = chan \o [k \in 1..Cardinality(ns) |-> PaymentEvent(InOrder(ns)[k], b)]
         /\ emitted' = emitted \cup {<<b, n>> : n \in ns}
    ELSE /\ chan' = chan
         /\ emitted' = emitted

\* let mut last_block_num = self.chain_config.read().unwrap().last_processed_block;
IngRead ==
    /\ ing.pc = "begin"
    /\ ing' = [ing EXCEPT !.pc = IF lpb = 0 THEN "tip0" ELSE "poll",
                          !.last_block_num = lpb]
    /\ UNCHANGED <<store_vars, lpb, watch_addresses, chan, active, wat, conf, jan, cre,
                   env_vars, hist_vars, pure_vars,
                   hook_vars, cfg_vars, aux_vars>>

\* if last_block_num == 0: get_block_number() => Ok(n)
IngTip0Ok ==
    /\ ing.pc \in {"tip0", "tip0_retry"}
    /\ ing' = [ing EXCEPT !.pc = "poll", !.last_block_num = tip]
    /\ start_block' = IF start_block = 0 THEN tip ELSE start_block
    /\ rpc_failed' = FALSE
    /\ UNCHANGED <<store_vars, lpb, watch_addresses, chan, active, wat, conf, jan, cre,
                   env_vars, completed, matched, emitted, credits, pure_vars,
                   hook_vars, cfg_vars, aux_vars>>

\* get_block_number() => Err: sleep 5 s, then get_block_number().await?
IngTip0Err ==
    /\ ing.pc \in {"tip0", "tip0_retry"}
    /\ ing' = [ing EXCEPT !.pc = IF ing.pc = "tip0" THEN "tip0_retry" ELSE "dead"]
    /\ rpc_failed' = TRUE
    /\ UNCHANGED <<store_vars, lpb, watch_addresses, chan, active, wat, conf, jan, cre,
                   env_vars, start_block, completed, matched, emitted, credits,
                   pure_vars,
                   hook_vars, cfg_vars, aux_vars>>

\* a range that starts at the block processed last
range_start_last(last_block_num) == last_block_num

\* for block_num in (last_block_num + 1)..=current_block_num: the first block
range_start(last_block_num) == last_block_num + 1

\* u64::saturating_sub
saturating_sub(a, b) == IF a > b THEN a - b ELSE 0

\* loop: get_block_number() => Ok(n); current_block_num = n.saturating_sub(block_lag);
\* if current_block_num <= last_block_num: sleep 1 s and poll again
IngPollOk ==
    /\ ing.pc = "poll"
    /\ saturating_sub(tip, block_lag) > ing.last_block_num
    /\ ing' = [ing EXCEPT !.pc = "fetch",
                          !.current_block_num = saturating_sub(tip, block_lag),
                          !.block_num = range_start(ing.last_block_num),
                          !.at_start = watch_addresses]
    /\ rpc_failed' = FALSE
    /\ UNCHANGED <<store_vars, lpb, watch_addresses, chan, active, wat, conf, jan, cre,
                   env_vars, start_block, completed, matched, emitted, credits,
                   pure_vars,
                   hook_vars, cfg_vars, aux_vars>>

\* get_block_number() => Err: sleep 2 s, continue
IngPollErr ==
    /\ ing.pc = "poll"
    /\ rpc_failed' = TRUE
    /\ UNCHANGED <<store_vars, proc_vars, env_vars, start_block, completed, matched,
                   emitted, credits, pure_vars,
                   hook_vars, cfg_vars, aux_vars>>

\* eth_getBlockByNumber(block_num, true) => Ok with transactions; then the
\* watch-set is read into address_set
IngFetchOk ==
    /\ ing.pc = "fetch"
    /\ ing' = [ing EXCEPT !.pc = "native", !.address_set = watch_addresses]
    /\ rpc_failed' = FALSE
    /\ UNCHANGED <<store_vars, lpb, watch_addresses, chan, active, wat, conf, jan, cre,
                   env_vars, start_block, completed, matched, emitted, credits,
                   pure_vars,
                   hook_vars, cfg_vars, aux_vars>>

\* eth_getBlockByNumber => Err, or no transactions array: sleep 1 s, retry
IngFetchErr ==
    /\ ing.pc = "fetch"
    /\ rpc_failed' = TRUE
    /\ UNCHANGED <<store_vars, proc_vars, env_vars, start_block, completed, matched,
                   emitted, credits, pure_vars,
                   hook_vars, cfg_vars, aux_vars>>

\* process_transactions(&transactions, &address_set, ...)
IngNative ==
    /\ ing.pc = "native"
    /\ Send(process_transactions(BlockTxs(ing.block_num), ing.address_set), ing.block_num)
    /\ ing' = [ing EXCEPT !.pc = "logs"]
    /\ UNCHANGED <<store_vars, lpb, watch_addresses, active, wat, conf, jan, cre,
                   env_vars, start_block, completed, matched, credits, rpc_failed,
                   pure_vars,
                   hook_vars, cfg_vars, aux_vars>>

\* what listen does once process_logs has returned:
\*   last_block_num = block_num; chain_config.last_processed_block = last_block_num
AfterBlock(b) ==
    /\ lpb' = b
    /\ ing' = [ing EXCEPT !.last_block_num = b,
                          !.pc = IF persist_due(b, ing.current_block_num)
                                 THEN "persist" ELSE "fetch",
                          !.block_num = IF persist_due(b, ing.current_block_num)
                                        THEN b ELSE b + 1,
                          !.at_start = IF persist_due(b, ing.current_block_num)
                                       THEN @ ELSE watch_addresses]
    /\ completed' = completed \cup {b}
    /\ matched' = matched \cup
           {<<b, n>> : n \in {m \in BlockTxs(b) : Transfer(m).to \in ing.address_set}}

\* process_logs: get_logs(&filter) => Ok(logs); the matching logs are sent
IngLogsOk ==
    /\ ing.pc = "logs"
    /\ Send(process_logs(LogsOf(ing.block_num), ing.address_set), ing.block_num)
    /\ AfterBlock(ing.block_num)
    /\ rpc_failed' = FALSE
    /\ UNCHANGED <<store_vars, watch_addresses, active, wat, conf, jan, cre,
                   env_vars, start_block, credits, pure_vars,
                   hook_vars, cfg_vars, aux_vars>>

\* a listen that takes a failed get_logs for an empty answer
IngLogsErrAdvance ==
    /\ ing.pc = "logs"
    /\ rpc_failed' = TRUE
    /\ AfterBlock(ing.block_num)
    /\ UNCHANGED <<store_vars, watch_addresses, chan, active, wat, conf, jan, cre,
                   env_vars, start_block, emitted, credits, pure_vars,
                   hook_vars, cfg_vars, aux_vars>>

\* process_logs: get_logs(&filter) => Err: sleep 1 s, retry
IngLogsErr ==
    /\ ing.pc = "logs"
    /\ rpc_failed' = TRUE
    /\ UNCHANGED <<store_vars, proc_vars, env_vars, start_block, completed, matched,
                   emitted, credits, pure_vars,
                   hook_vars, cfg_vars, aux_vars>>

\* where listen goes after the persist step of block last_block_num
IngAfterPersist ==
    ing' = IF ing.last_block_num = ing.current_block_num
           THEN [ing EXCEPT !.pc = "poll"]
           ELSE [ing EXCEPT !.pc = "fetch", !.block_num = ing.last_block_num + 1,
                            !.at_start = watch_addresses]

\* Postgres::update_chain_block: UPDATE chains SET last_processed_block = $1
update_chain_block(block_num) == block_num

\* db.update_chain_block(&self.chain_name, last_block_num) => Ok
IngPersistOk ==
    /\ ing.pc = "persist"
    /\ lpb_db' = update_chain_block(ing.last_block_num)
    /\ IngAfterPersist
    /\ UNCHANGED <<invoices, payments, webhooks, required_confirmations, block_lag,
                   lpb, watch_addresses, chan, active, wat, conf, jan, cre,
                   env_vars, hist_vars, pure_vars,
                   hook_vars, cfg_vars, aux_vars>>

\* db.update_chain_block(...) => Err: logged, the loop goes on
IngPersistErr ==
    /\ ing.pc = "persist"
    /\ IngAfterPersist
    /\ UNCHANGED <<store_vars, lpb, watch_addresses, chan, active, wat, conf, jan, cre,
                   env_vars, hist_vars, pure_vars,
                   hook_vars, cfg_vars, aux_vars>>

(***************************************************************************)
(* Supervisor: AppState::stop_listening, AppState::start_listening.        *)
(***************************************************************************)
StopListening ==
    /\ active
    /\ stops < MaxStops
    /\ stops' = stops + 1
    /\ active' = FALSE              \* active_chains.remove(chain_name)
    /\ ing' = IngNone               \* handle.abort()
    /\ rpc_failed' = FALSE
    /\ UNCHANGED <<store_vars, lpb, watch_addresses, chan, wat, conf, jan, cre,
                   base, chain, crashes, start_block, completed, matched, emitted,
                   credits, pure_vars,
                   hook_vars, cfg_vars, aux_vars>>

StartListening ==
    /\ ~active                      \* contains_key(chain) => bail
    /\ active' = TRUE
    /\ ing' = IngBegin              \* tokio::spawn(blockchain.listen(db, tx))
    /\ UNCHANGED <<store_vars, lpb, watch_addresses, chan, wat, conf, jan, cre,
                   env_vars, hist_vars, pure_vars,
                   hook_vars, cfg_vars, aux_vars>>

(***************************************************************************)
(* The invoice watcher: start_invoice_watcher, one action per await.       *)
(*   pc: "idle", "attempt" (before add_payment_attempt), "webhook"         *)
(*   (before add_webhook_job)                                              *)
(***************************************************************************)
WatIdle == [pc |-> "idle", event |-> PaymentEvent(1, 0), invoice_id |-> 0]
ConfIdle == [pc |-> "idle", queue |-> <<>>, actual |-> None]
JanIdle == [pc |-> "idle", expired |-> <<>>, to_remove |-> {}]

\* rx.recv() => Some(event); get_pending_invoice_by_address => Ok(None), or an
\* invoice of another token: the event is dropped
WatcherDrop ==
    /\ wat.pc = "idle"
    /\ chan # <<>>
    /\ LET event == Head(chan)
           found == get_pending_invoice_by_address(invoices, event.to)
       IN  \/ found = {}
           \/ \E i \in found : event.token # invoices[i].token
    /\ chan' = Tail(chan)
    /\ UNCHANGED <<store_vars, lpb, watch_addresses, active, ing, wat, conf, jan, cre,
                   env_vars, hist_vars, pure_vars,
                   hook_vars, cfg_vars, aux_vars>>

\* rx.recv() => Some(event); get_pending_invoice_by_address => Ok(Some(inv)) and
\* the token is the invoice's
WatcherLookup ==
    /\ wat.pc = "idle"
    /\ chan # <<>>
    /\ LET event == Head(chan)
       IN  \E i \in get_pending_invoice_by_address(invoices, event.to) :
               /\ event.token = invoices[i].token
               /\ wat' = [pc |-> "attempt", event |-> event, invoice_id |-> i]
    /\ chan' = Tail(chan)
    /\ UNCHANGED <<store_vars, lpb, watch_addresses, active, ing, conf, jan, cre,
                   env_vars, hist_vars, pure_vars,
                   hook_vars, cfg_vars, aux_vars>>

\* add_payment_attempt(...) => Ok(_)
WatcherAttemptOk ==
    /\ wat.pc = "attempt"
    /\ payments' = db_add_payment_attempt(payments, wat.invoice_id, wat.event.to,
                       wat.event.tx_hash, wat.event.amount_raw, wat.event.block_number,
                       wat.event.log_index)
    /\ wat' = [wat EXCEPT !.pc = "webhook"]
    /\ UNCHANGED <<invoices, webhooks, lpb_db, required_confirmations, block_lag,
                   lpb, watch_addresses, chan, active, ing, conf, jan, cre,
                   env_vars, hist_vars, pure_vars,
                   hook_vars, cfg_vars, aux_vars>>

\* add_payment_attempt(...) => Err (storage): logged, the event is dropped
WatcherAttemptErr ==
    /\ wat.pc = "attempt"
    /\ wat' = WatIdle
    /\ UNCHANGED <<store_vars, lpb, watch_addresses, chan, active, ing, conf, jan, cre,
                   env_vars, hist_vars, pure_vars,
                   hook_vars, cfg_vars, aux_vars>>

\* add_webhook_job(&invoice.id, TxDetected{..})
WatcherWebhook ==
    /\ wat.pc = "webhook"
    /\ webhooks' = add_webhook_job(webhooks, invoices, wat.invoice_id,
                       [event_type |-> "TxDetected", tx_hash |-> wat.event.tx_hash,
                        confirmations |-> None])
    /\ wat' = WatIdle
    /\ UNCHANGED <<invoices, payments, lpb_db, required_confirmations, block_lag,
                   lpb, watch_addresses, chan, active, ing, conf, jan, cre,
                   env_vars, hist_vars, pure_vars,
                   hook_vars, cfg_vars, aux_vars>>

(***************************************************************************)
(* The confirmator: start_confirmator.  One tick takes the list of         *)
(* Confirming payments and walks it.                                       *)
(*   pc: "idle" (interval_timer.tick), "loop" (for payment in payments),   *)
(*   "verify" (before get_tx_block_number), "finalize" (before             *)
(*   finalize_payment), "reorg" (before update_payment_block), "paid"      *)
(*   (finalize_payment => Ok(true)), "unwatch" (before                     *)
(*   remove_watch_address), "confirmed" (finalize_payment => Ok(false)),   *)
(*   "dead" (the task panicked)                                            *)
(* actual is what get_tx_block_number returned for the payment at hand.    *)
(***************************************************************************)
\* the confirmator goes on to the next payment of its list
ConfPop == IF Len(conf.queue) > 1
           THEN [pc |-> "loop", queue |-> Tail(conf.queue), actual |-> None]
           ELSE ConfIdle

\* get_confirming_payments() => Ok(payments)
ConfTick ==
    /\ conf.pc = "idle"
    /\ get_confirming_payments(payments) # <<>>
    /\ conf' = [pc |-> "loop", queue |-> get_confirming_payments(payments),
                actual |-> None]
    /\ UNCHANGED <<store_vars, lpb, watch_addresses, chan, active, ing, wat, jan, cre,
                   env_vars, hist_vars, pure_vars,
                   hook_vars, cfg_vars, aux_vars>>

\* a confirmator that asks for one confirmation less
threshold_short(payment) == lpb + 1 >= payment.block_number + required_confirmations

\* let target_block = payment.block_number + required; last_processed >= target_block
threshold_reached(payment) == lpb >= payment.block_number + required_confirmations

\* if last_processed < target_block: "Not enough confirmations yet"
ConfWait ==
    /\ conf.pc = "loop"
    /\ ~threshold_reached(Head(conf.queue))
    /\ conf' = ConfPop
    /\ UNCHANGED <<store_vars, lpb, watch_addresses, chan, active, ing, wat, jan, cre,
                   env_vars, hist_vars, pure_vars,
                   hook_vars, cfg_vars, aux_vars>>

\* "Threshold reached, verifying transaction on-chain..."
ConfThreshold ==
    /\ conf.pc = "loop"
    /\ threshold_reached(Head(conf.queue))
    /\ conf' = [conf EXCEPT !.pc = "verify"]
    /\ UNCHANGED <<store_vars, lpb, watch_addresses, chan, active, ing, wat, jan, cre,
                   env_vars, hist_vars, pure_vars,
                   hook_vars, cfg_vars, aux_vars>>

\* get_tx_block_number => Err ("Will retry") or finalize_payment => Err
ConfErr ==
    /\ conf.pc \in {"verify", "finalize"}
    /\ conf' = ConfPop
    /\ UNCHANGED <<store_vars, lpb, watch_addresses, chan, active, ing, wat, jan, cre,
                   env_vars, hist_vars, pure_vars,
                   hook_vars, cfg_vars, aux_vars>>

\* EvmBlockchain::get_tx_block_number: the block of the receipt, if there is one
get_tx_block_number(tx_hash) ==
    IF tx_hash \in Mined THEN Some(BlockOf(tx_hash)) ELSE None

\* get_tx_block_number => Ok(Some(actual_block));
\* if actual_block != payment.block_number: "Chain Reorg"
ConfLookup ==
    /\ conf.pc = "verify"
    /\ LET payment == Head(conf.queue)
           found == get_tx_block_number(payments[payment.id].tx_hash)
       IN  /\ found # None
           /\ conf' = [conf EXCEPT !.actual = found,
                                   !.pc = IF found[1] # payment.block_number
                                          THEN "reorg" ELSE "finalize"]
    /\ UNCHANGED <<store_vars, lpb, watch_addresses, chan, active, ing, wat, jan, cre,
                   env_vars, hist_vars, pure_vars,
                   hook_vars, cfg_vars, aux_vars>>

\* get_tx_block_number => Ok(None): "Transaction cannot be found in chain"
ConfNotFound ==
    /\ conf.pc = "verify"
    /\ get_tx_block_number(payments[Head(conf.queue).id].tx_hash) = None
    /\ conf' = ConfPop
    /\ UNCHANGED <<store_vars, lpb, watch_addresses, chan, active, ing, wat, jan, cre,
                   env_vars, hist_vars, pure_vars,
                   hook_vars, cfg_vars, aux_vars>>

\* finalize_payment(&payment.id) => Ok(is_fully_paid)
ConfFinalize ==
    /\ conf.pc = "finalize"
    /\ LET payment == Head(conf.queue)
           row == payments[payment.id]
       IN  /\ payments' = finalize_payment_payments(payments, payment.id)
           /\ invoices' = finalize_payment_invoices(payments, invoices, payment.id)
           /\ credits' = Append(credits, [invoice_id |-> row.invoice_id,
                                          tx_hash |-> row.tx_hash,
                                          log_index |-> Transfer(row.tx_hash).log_index])
           /\ conf' = [conf EXCEPT !.pc =
                          IF finalize_payment_result(payments, invoices, payment.id)
                          THEN "paid" ELSE "confirmed"]
    /\ UNCHANGED <<webhooks, lpb_db, required_confirmations, block_lag,
                   lpb, watch_addresses, chan, active, ing, wat, jan, cre,
                   env_vars, start_block, completed, matched, emitted, rpc_failed,
                   pure_vars,
                   hook_vars, cfg_vars, aux_vars>>

\* actual_block != payment.block_number:
\* Postgres::update_payment_block(&payment.id, actual_block), then return
ConfReorg ==
    /\ conf.pc = "reorg"
    /\ backend = "postgres"
    /\ payments' = update_payment_block(payments, Head(conf.queue).id, conf.actual[1])
    /\ conf' = ConfPop
    /\ UNCHANGED <<invoices, webhooks, lpb_db, required_confirmations, block_lag,
                   lpb, watch_addresses, chan, active, ing, wat, jan, cre,
                   env_vars, hist_vars, pure_vars,
                   hook_vars, cfg_vars, aux_vars>>

\* MockDatabase::update_payment_block(&payment.id, actual_block):
\* self.payments.get_mut(payment_id).unwrap() on a map keyed by invoice_id;
\* the payment's id is no key of it, the unwrap panics and the task ends
ConfReorgPanic ==
    /\ conf.pc = "reorg"
    /\ backend = "mock"
    /\ conf' = [conf EXCEPT !.pc = "dead"]
    /\ UNCHANGED <<store_vars, lpb, watch_addresses, chan, active, ing, wat, jan, cre,
                   env_vars, hist_vars, pure_vars,
                   hook_vars, cfg_vars, aux_vars>>

\* Ok(true): get_invoice, add_webhook_job(InvoicePaid)
ConfPaidHook ==
    /\ conf.pc = "paid"
    /\ webhooks' = add_webhook_job(webhooks, invoices,
                       payments[Head(conf.queue).id].invoice_id,
                       [event_type |-> "InvoicePaid", tx_hash |-> 0, confirmations |-> None])
    /\ conf' = [conf EXCEPT !.pc = "unwatch"]
    /\ UNCHANGED <<invoices, payments, lpb_db, required_confirmations, block_lag,
                   lpb, watch_addresses, chan, active, ing, wat, jan, cre,
                   env_vars, hist_vars, pure_vars,
                   hook_vars, cfg_vars, aux_vars>>

\* Ok(true): remove_watch_address(&payment.network, &payment.to)
ConfRemoveWatch ==
    /\ conf.pc = "unwatch"
    /\ watch_addresses' = remove_watch_address(watch_addresses,
                              payments[Head(conf.queue).id].to)
    /\ conf' = ConfPop
    /\ UNCHANGED <<store_vars, lpb, chan, active, ing, wat, jan, cre,
                   env_vars, hist_vars, pure_vars,
                   hook_vars, cfg_vars, aux_vars>>

\* Ok(false): add_webhook_job(TxConfirmed)
ConfConfirmedHook ==
    /\ conf.pc = "confirmed"
    /\ webhooks' = add_webhook_job(webhooks, invoices,
                       payments[Head(conf.queue).id].invoice_id,
                       [event_type |-> "TxConfirmed",
                        tx_hash |-> payments[Head(conf.queue).id].tx_hash,
                        confirmations |-> Some(required_confirmations)])
    /\ conf' = ConfPop
    /\ UNCHANGED <<invoices, payments, lpb_db, required_confirmations, block_lag,
                   lpb, watch_addresses, chan, active, ing, wat, jan, cre,
                   env_vars, hist_vars, pure_vars,
                   hook_vars, cfg_vars, aux_vars>>

(***************************************************************************)
(* The janitor: start_janitor.                                             *)
(*   pc: "idle" (interval_timer.tick), "hooks" (for ... in                 *)
(*   expired_addresses, then the bulk removal)                             *)
(***************************************************************************)
\* expire_old_invoices() => Ok(expired_addresses), not empty; the rows whose
\* expires_at has passed are any of the rows, whatever their status
JanExpire ==
    /\ jan.pc = "idle"
    /\ \E due \in SUBSET (1..Len(invoices)) :
           /\ expired_ids(invoices, due) # {}
           /\ invoices' = expire_old_invoices(invoices, due)
           /\ jan' = [pc |-> "hooks", expired |-> InOrder(expired_ids(invoices, due)),
                       to_remove |-> {}]
    /\ UNCHANGED <<payments, webhooks, lpb_db, required_confirmations, block_lag,
                   lpb, watch_addresses, chan, active, ing, wat, conf, cre,
                   env_vars, hist_vars, pure_vars,
                   hook_vars, cfg_vars, aux_vars>>

\* add_webhook_job(&invoice_id, InvoiceExpired); to_remove[network].push(address)
JanHook ==
    /\ jan.pc = "hooks"
    /\ jan.expired # <<>>
    /\ webhooks' = add_webhook_job(webhooks, invoices, Head(jan.expired),
                       [event_type |-> "InvoiceExpired", tx_hash |-> 0,
                        confirmations |-> None])
    /\ jan' = [jan EXCEPT !.expired = Tail(jan.expired),
                          !.to_remove = @ \cup {invoices[Head(jan.expired)].address}]
    /\ UNCHANGED <<invoices, payments, lpb_db, required_confirmations, block_lag,
                   lpb, watch_addresses, chan, active, ing, wat, conf, cre,
                   env_vars, hist_vars, pure_vars,
                   hook_vars, cfg_vars, aux_vars>>

\* remove_watch_addresses_bulk(&network, &addresses)
JanRemove ==
    /\ jan.pc = "hooks"
    /\ jan.expired = <<>>
    /\ watch_addresses' = remove_watch_addresses_bulk(watch_addresses, jan.to_remove)
    /\ jan' = JanIdle
    /\ UNCHANGED <<store_vars, lpb, chan, active, ing, wat, conf, cre,
                   env_vars, hist_vars, pure_vars,
                   hook_vars, cfg_vars, aux_vars>>

(***************************************************************************)
(* The webhook dispatcher: start_webhook_dispatcher and process_webhook.   *)
(* disp[d] is a caller of select_webhooks_job (a dispatcher loop); every   *)
(* job it is given becomes a process_webhook task.                         *)
(*   disp[d].pc: "select", "mark" (the mock backend, between its two       *)
(*   passes over the table)                                                *)
(*   task.pc: "post" (spawned), "sent" (the POST returned 2xx), "retry"    *)
(*   (the POST returned another status, a network error or a timeout)      *)
(***************************************************************************)
DispIdle == [pc |-> "select", target_ids |-> {}]

\* WHERE status = 'Pending' AND next_retry <= NOW()
\* filter(|r| r.status == WebhookStatus::Pending && r.next_retry <= now)
due_jobs(hooks, t) ==
    {j \in 1..Len(hooks) : hooks[j].status = "Pending" /\ hooks[j].next_retry <= t}

\* the k lowest and the k highest members of a set of row ids
Lowest(S, k) == {j \in S : Cardinality({i \in S : i < j}) < k}
Highest(S, k) == {j \in S : Cardinality({i \in S : i > j}) < k}

\* LIMIT 50 / take(50): the sets of rows the statement may take.  All the due
\* rows when they are at most 50; otherwise 50 of them, the table having no
\* order: the model takes the 50 first or the 50 last.
lease_choices(hooks, t) ==
    LET due == due_jobs(hooks, t)
    IN  IF Cardinality(due) <= LeaseLimit THEN {due}
        ELSE {Lowest(due, LeaseLimit), Highest(due, LeaseLimit)}

\* UPDATE webhooks SET status = 'Processing' WHERE id IN (...)
\* job.status = WebhookStatus::Processing
mark_processing(hooks, ids) ==
    [j \in 1..Len(hooks) |->
        IF j \in ids THEN [hooks[j] EXCEPT !.status = "Processing"] ELSE hooks[j]]

\* RETURNING w.id, ..., w.max_retries, w.attempts: the WebhookJob values, each
\* handed to a spawned process_webhook
spawned(hooks, ids, d) ==
    {[d |-> d, id |-> j, attempts |-> hooks[j].attempts,
      max_retries |-> hooks[j].max_retries, pc |-> "post"] : j \in ids}

\* Postgres::select_webhooks_job => Ok(jobs), jobs not empty: one statement
PgSelect(d) ==
    /\ backend = "postgres"
    /\ disp[d].pc = "select"
    /\ \E ids \in lease_choices(webhooks, now) :
           /\ ids # {}
           /\ webhooks' = mark_processing(webhooks, ids)
           /\ tasks' = tasks \cup spawned(webhooks, ids, d)
    /\ UNCHANGED <<invoices, payments, lpb_db, required_confirmations, block_lag,
                   proc_vars, env_vars, hist_vars, pure_vars, now, disp, posts,
                   cfg_vars, aux_vars>>

\* MockDatabase::select_webhooks_job, first pass: target_ids is collected
\* under the read locks of the map
MockCollect(d) ==
    /\ backend = "mock"
    /\ disp[d].pc = "select"
    /\ \E ids \in lease_choices(webhooks, now) :
           /\ ids # {}
           /\ disp' = [disp EXCEPT ![d] = [pc |-> "mark", target_ids |-> ids]]
    /\ UNCHANGED <<store_vars, proc_vars, env_vars, hist_vars, pure_vars,
                   now, tasks, posts, cfg_vars, aux_vars>>

\* MockDatabase::select_webhooks_job, second pass: for id in target_ids, the
\* row is taken with get_mut, set to Processing and pushed to the result
MockMark(d) ==
    /\ disp[d].pc = "mark"
    /\ webhooks' = mark_processing(webhooks, disp[d].target_ids)
    /\ tasks' = tasks \cup spawned(webhooks, disp[d].target_ids, d)
    /\ disp' = [disp EXCEPT ![d] = DispIdle]
    /\ UNCHANGED <<invoices, payments, lpb_db, required_confirmations, block_lag,
                   proc_vars, env_vars, hist_vars, pure_vars, now, posts, cfg_vars, aux_vars>>

\* the number of POSTs of job j so far
PostCount(j) == IF j \in DOMAIN posts THEN posts[j] ELSE 0

\* one more POST of job id
Posted(id) ==
    [j \in 1..Len(webhooks) |-> IF j = id THEN PostCount(j) + 1 ELSE PostCount(j)]

\* process_webhook: client.post(&job.url)...send() => Ok(res), res is 2xx
TaskPostOk(t) ==
    /\ t \in tasks
    /\ t.pc = "post"
    /\ posts' = Posted(t.id)
    /\ tasks' = (tasks \ {t}) \cup {[t EXCEPT !.pc = "sent"]}
    /\ UNCHANGED <<store_vars, proc_vars, env_vars, hist_vars, pure_vars,
                   now, disp, cfg_vars, aux_vars>>

\* send() => Ok(res) with another status, or Err (network error, timeout)
TaskPostFail(t) ==
    /\ t \in tasks
    /\ t.pc = "post"
    /\ posts' = Posted(t.id)
    /\ tasks' = (tasks \ {t}) \cup {[t EXCEPT !.pc = "retry"]}
    /\ UNCHANGED <<store_vars, proc_vars, env_vars, hist_vars, pure_vars,
                   now, disp, cfg_vars, aux_vars>>

\* set_webhook_status: UPDATE webhooks SET status = $1 WHERE id = $2
set_webhook_status(hooks, id, status) == [hooks EXCEPT ![id].status = status]

\* a retry delay of 2^attempts seconds, counted before the increment
wait_time_before(new_attempts) == 2 ^ (new_attempts - 1)

\* handle_retry: let wait_time = 2_u64.pow(new_attempts as u32)
wait_time(new_attempts) == 2 ^ new_attempts

\* schedule_webhook_retry: UPDATE webhooks SET status = 'Pending', attempts = $1,
\*   next_retry = NOW() + (interval '1 second' * $2) WHERE id = $3
schedule_webhook_retry(hooks, id, attempts, next_retry_in_secs) ==
    [hooks EXCEPT ![id].status = "Pending", ![id].attempts = attempts,
                  ![id].next_retry = now + next_retry_in_secs]

\* handle_retry: new_attempts = job.attempts + 1;
\*   new_attempts >= job.max_retries => set_webhook_status(id, Failed)
\*   otherwise schedule_webhook_retry(id, new_attempts, wait_time)
handle_retry(hooks, job) ==
    LET new_attempts == job.attempts + 1
    IN  IF new_attempts >= job.max_retries
        THEN set_webhook_status(hooks, job.id, "Failed")
        ELSE schedule_webhook_retry(hooks, job.id, new_attempts, wait_time(new_attempts))

\* db.set_webhook_status(&job.id, WebhookStatus::Sent) => Ok
TaskSetSent(t) ==
    /\ t \in tasks
    /\ t.pc = "sent"
    /\ webhooks' = set_webhook_status(webhooks, t.id, "Sent")
    /\ tasks' = tasks \ {t}
    /\ UNCHANGED <<invoices, payments, lpb_db, required_confirmations, block_lag,
                   proc_vars, env_vars, hist_vars, pure_vars, now, disp, posts,
                   cfg_vars, aux_vars>>

\* handle_retry(db, job, reason) => Ok
TaskRetry(t) ==
    /\ t \in tasks
    /\ t.pc = "retry"
    /\ webhooks' = handle_retry(webhooks, t)
    /\ tasks' = tasks \ {t}
    /\ UNCHANGED <<invoices, payments, lpb_db, required_confirmations, block_lag,
                   proc_vars, env_vars, hist_vars, pure_vars, now, disp, posts,
                   cfg_vars, aux_vars>>

\* set_webhook_status / schedule_webhook_retry => Err: process_webhook returns
\* the error, which is logged; the row is left as it is
TaskStoreErr(t) ==
    /\ t \in tasks
    /\ t.pc \in {"sent", "retry"}
    /\ tasks' = tasks \ {t}
    /\ UNCHANGED <<store_vars, proc_vars, env_vars, hist_vars, pure_vars,
                   now, disp, posts, cfg_vars, aux_vars>>

\* time passes until the next_retry of a Pending job
Elapse ==
    /\ \E j \in 1..Len(webhooks) :
           /\ webhooks[j].status = "Pending"
           /\ webhooks[j].next_retry > now
           /\ now' = webhooks[j].next_retry
    /\ UNCHANGED <<store_vars, proc_vars, env_vars, hist_vars, pure_vars,
                   disp, tasks, posts, cfg_vars, aux_vars>>

(***************************************************************************)
(* A crash of the process and its restart: Postgres::init and              *)
(* AppState::init run on the durable state; all in-memory state is lost.   *)
(***************************************************************************)
CrashRestart ==
    /\ crashes < MaxCrashes
    /\ crashes' = crashes + 1
    /\ lpb' = lpb_db
    /\ watch_addresses' = seed_watch_addresses(invoices)
    /\ webhooks' = recover_webhooks(webhooks)
    /\ chan' = <<>>
    /\ active' = TRUE
    /\ ing' = IngBegin
    /\ wat' = WatIdle
    /\ conf' = ConfIdle
    /\ jan' = JanIdle
    /\ cre' = [k \in DOMAIN cre |->         \* the requests in flight die
                  IF cre[k].pc = "idle" THEN cre[k] ELSE [cre[k] EXCEPT !.pc = "done"]]
    /\ rpc_failed' = FALSE
    /\ disp' = [d \in DOMAIN disp |-> DispIdle]
    /\ tasks' = {}
    /\ UNCHANGED <<invoices, payments, lpb_db, required_confirmations, block_lag,
                   base, chain, stops, start_block, completed, matched, emitted,
                   credits, pure_vars, now, posts, cfg_vars, aux_vars>>

(***************************************************************************)
(* SpecSlot: get_free_slot applied to every bounded answer of              *)
(* get_busy_indexes.                                                       *)
(***************************************************************************)
BusyAnswers == {Err} \cup {Ok(l) : l \in SeqsUpTo(0..MaxBusyIndex, MaxBusyLen)}

\* the pipeline as it stands after AppState::init on a store with one chain,
\* no invoice and last_processed_block = block
PipelineInit(block) ==
    /\ invoices = <<>>
    /\ payments = <<>>
    /\ webhooks = <<>>
    /\ lpb_db = block
    /\ lpb = block
    /\ watch_addresses = {}
    /\ chan = <<>>
    /\ active = TRUE
    /\ ing = IngBegin
    /\ wat = WatIdle
    /\ conf = ConfIdle
    /\ jan = JanIdle
    /\ chain = <<>>
    /\ crashes = 0
    /\ stops = 0
    /\ start_block = block
    /\ completed = {}
    /\ matched = {}
    /\ emitted = {}
    /\ credits = <<>>
    /\ rpc_failed = FALSE
    /\ now = 0
    /\ tasks = {}
    /\ posts = <<>>

\* one dispatcher over the relational backend; the payers of 1..MaxTransfers
StandardConfig ==
    /\ disp = <<DispIdle>>
    /\ backend = "postgres"
    /\ payers = TransferIds

\* the variables a specification does not use, at rest
AuxIdle ==
    /\ rx_open = TRUE
    /\ fin = <<>>
    /\ mock = <<>>
    /\ ret = <<>>
    /\ reqs = <<>>
    /\ logq = <<>>
    /\ sup = <<>>
    /\ lk = <<>>

PureInit ==
    /\ slot_busy = Err
    /\ slot_result = None
    /\ slot_called = FALSE
    /\ att_keys = <<>>
    /\ AuxIdle

PureIdle == PureInit /\ StandardConfig

InitSlot ==
    /\ slot_busy \in BusyAnswers
    /\ slot_result = None
    /\ slot_called = FALSE
    /\ att_keys = <<>>
    /\ AuxIdle
    /\ StandardConfig
    /\ PipelineInit(0)
    /\ base = 0
    /\ required_confirmations = 0
    /\ block_lag = 0
    /\ cre = <<CreIdle>>

CallGetFreeSlot ==
    /\ ~slot_called
    /\ slot_called' = TRUE
    /\ slot_result' = get_free_slot(slot_busy)
    /\ UNCHANGED <<store_vars, proc_vars, env_vars, hist_vars, slot_busy, att_keys,
                   hook_vars, cfg_vars, aux_vars>>

NextSlot == CallGetFreeSlot

SpecSlot == InitSlot /\ [][NextSlot]_vars

\* The smallest natural number that is not in the list (it is at most Len(s)).
MinFree(s) == CHOOSE k \in 0..(MaxBusyLen + MaxBusyIndex + 1) :
                  /\ k \notin Range(s)
                  /\ \A j \in 0..(MaxBusyLen + MaxBusyIndex + 1) : j \notin Range(s) => k <= j

\* C9: for every list of busy indexes, non-contiguous and repeated values
\* included, get_free_slot returns the smallest natural number not in the
\* list; it returns None only when get_busy_indexes failed.
C9_FreeSlotIsMin ==
    slot_called =>
        /\ slot_busy.ok => slot_result = Some(MinFree(slot_busy.list))
        /\ slot_result = None <=> ~slot_busy.ok

\* a non-contiguous list with a repeated value, and a contiguous full one
C9_Witness ==
    /\ slot_called
    /\ slot_busy = Ok(<<0, 2, 2>>)
    /\ slot_result = Some(1)

(***************************************************************************)
(* SpecIngest: the ingestor with a failing RPC node and a failing store,   *)
(* under aborts (stop_listening / start_listening) and process crashes,    *)
(* while the watch-set changes.                                            *)
(***************************************************************************)
InitIngest ==
    /\ base = PersistEvery - 1
    /\ \E block \in {0, base} : PipelineInit(block)
    /\ required_confirmations = 0
    /\ block_lag \in {0, MaxLag}
    /\ cre = <<CreIdle>>
    /\ PureIdle

\* add_watch_address / remove_watch_address called by the API and the tasks
WatchAdd ==
    /\ watch_addresses' = add_watch_address(watch_addresses, derive_address(0))
    /\ watch_addresses' # watch_addresses
    /\ UNCHANGED <<store_vars, lpb, chan, active, ing, wat, conf, jan, cre,
                   env_vars, hist_vars, pure_vars,
                   hook_vars, cfg_vars, aux_vars>>

WatchRemove ==
    /\ watch_addresses' = remove_watch_address(watch_addresses, derive_address(0))
    /\ watch_addresses' # watch_addresses
    /\ UNCHANGED <<store_vars, lpb, chan, active, ing, wat, conf, jan, cre,
                   env_vars, hist_vars, pure_vars,
                   hook_vars, cfg_vars, aux_vars>>

NextIngest ==
    \/ MineBlock
    \/ WatchAdd
    \/ WatchRemove
    \/ IngRead
    \/ IngTip0Ok
    \/ IngTip0Err
    \/ IngPollOk
    \/ IngPollErr
    \/ IngFetchOk
    \/ IngFetchErr
    \/ IngNative
    \/ IngLogsOk
    \/ IngLogsErr
    \/ IngPersistOk
    \/ IngPersistErr
    \/ StopListening
    \/ StartListening
    \/ CrashRestart
    \/ WatcherDrop

SpecIngest == InitIngest /\ [][NextIngest]_vars

InBlock == ing.pc \in {"fetch", "native", "logs"}

\* C4: RPC failures never skip a block.  The cached last_processed_block
\* changes (outside a process restart) only in the step in which get_logs
\* of block_num succeeds, and block_num is then the block after the last one
\* processed; the native scan starts only from a successful fetch and the
\* log query only after the native scan.  A step that leaves
\* eth_getBlockByNumber or eth_getLogs failed changes neither
\* last_processed_block (cached or persisted) nor the ingestor's position,
\* and while the ingestor is at block b both its own counter and
\* last_processed_block are below b.
C4_NeverSkips ==
    [][ /\ (lpb' # lpb /\ crashes' = crashes) =>
               /\ ing.pc = "logs"
               /\ ~rpc_failed'
               /\ ing.block_num = ing.last_block_num + 1
               /\ lpb' = ing.block_num
        /\ (ing'.pc = "native" /\ ing.pc # "native") => (ing.pc = "fetch" /\ ~rpc_failed')
        /\ (ing'.pc = "logs" /\ ing.pc # "logs") => ing.pc = "native"
        /\ (rpc_failed' /\ ing.pc \in {"fetch", "logs"}) =>
               /\ ing' = ing
               /\ lpb' = lpb
               /\ lpb_db' = lpb_db
               /\ completed' = completed
        /\ (ing'.pc \in {"fetch", "native", "logs"}) =>
               /\ ing'.last_block_num < ing'.block_num
               /\ lpb' < ing'.block_num
               /\ lpb_db' < ing'.block_num
      ]_vars

\* get_logs of block b has failed, the node is already past b, and
\* last_processed_block is still below b
C4_Witness ==
    /\ ing.pc = "logs"
    /\ rpc_failed
    /\ tip > ing.block_num
    /\ LogsOf(ing.block_num) # {}
    /\ ing.address_set # {}
    /\ lpb < ing.block_num

\* C5: no-gap ingestion across restarts.  Every block of
\* (start_block, persisted last_processed_block] was processed to its end
\* and every transfer that matched the watch-set in such a pass was sent as
\* a Payment Event; the persisted last_processed_block, once written, is a
\* block whose processing completed; the ingestor works on the block after
\* last_processed_block.
C5_NoGap ==
    /\ \A b \in (start_block + 1)..lpb_db :
           /\ b \in completed
           /\ \A n \in BlockTxs(b) : <<b, n>> \in matched => <<b, n>> \in emitted
    /\ lpb_db # 0 => (lpb_db = start_block \/ lpb_db \in completed)
    /\ (InBlock /\ lpb # 0) => ing.block_num = lpb + 1

(***************************************************************************)
(* Spec: the whole pipeline on one chain.  One invoice is created, the     *)
(* payers' transfers are mined, the ingestor, the watcher, the confirmator *)
(* and the janitor run concurrently, and the process may crash and         *)
(* restart.  The RPC node answers every call.                              *)
(***************************************************************************)
Init ==
    /\ base = PersistEvery - 1
    /\ PipelineInit(base)
    /\ required_confirmations \in 0..MaxConfirmations
    /\ block_lag = 0
    /\ cre = <<CreIdle>>
    /\ PureIdle

Next ==
    \/ MineBlock
    \/ CreateGetSlot(1)
    \/ CreateAddInvoice(1)
    \/ CreateAddWatch(1)
    \/ IngRead
    \/ IngPollOk
    \/ IngFetchOk
    \/ IngNative
    \/ IngLogsOk
    \/ IngPersistOk
    \/ WatcherDrop
    \/ WatcherLookup
    \/ WatcherAttemptOk
    \/ WatcherAttemptErr
    \/ WatcherWebhook
    \/ ConfTick
    \/ ConfWait
    \/ ConfThreshold
    \/ ConfErr
    \/ ConfLookup
    \/ ConfFinalize
    \/ ConfPaidHook
    \/ ConfRemoveWatch
    \/ ConfConfirmedHook
    \/ JanExpire
    \/ JanHook
    \/ JanRemove
    \/ CrashRestart

Spec == Init /\ [][Next]_vars

\* the sum of amount_raw over the rows of `ids`
RECURSIVE SumAmounts(_, _)
SumAmounts(pays, ids) ==
    IF ids = {} THEN 0
    ELSE LET p == CHOOSE x \in ids : TRUE
         IN  pays[p].amount_raw + SumAmounts(pays, ids \ {p})

ConfirmedOf(i) ==
    {p \in 1..Len(payments) : payments[p].invoice_id = i /\ payments[p].status = "Confirmed"}

InvoiceMoves == {<<"Pending", "Paid">>, <<"Pending", "Expired">>}
PaymentMoves == {<<"Confirming", "Confirmed">>}

\* C3: status monotonicity.  In every step an invoice keeps its status or
\* moves Pending -> Paid or Pending -> Expired, and a payment keeps its
\* status or moves Confirming -> Confirmed.
C3_Monotone ==
    [][ /\ \A i \in 1..Len(invoices) :
              \/ invoices'[i].status = invoices[i].status
              \/ <<invoices[i].status, invoices'[i].status>> \in InvoiceMoves
        /\ \A p \in 1..Len(payments) :
              \/ payments'[p].status = payments[p].status
              \/ <<payments[p].status, payments'[p].status>> \in PaymentMoves
      ]_vars

\* the payment rows of invoice i for transfer n
RowsOf(i, n) ==
    {p \in 1..Len(payments) : payments[p].invoice_id = i /\ payments[p].tx_hash = n}

\* block b is marked processed for good: last_processed_block is persisted
\* at b or later and the ingestor is past b
ProcessedForGood(b) ==
    /\ b <= lpb_db
    /\ b <= lpb
    /\ InBlock => b < ing.block_num

\* C6: no missed payment.  When the channel is empty and the watcher is
\* idle, every transfer that was sent as a Payment Event, that lies in a
\* block marked processed for good and that goes to the address of a Pending
\* invoice with its token, is a payment row of that invoice.
C6_NoMissedPayment ==
    (chan = <<>> /\ wat.pc = "idle") =>
        \A n \in Mined : \A i \in PendingFor(n) :
            (<<BlockOf(n), n>> \in emitted /\ ProcessedForGood(BlockOf(n)))
                => RowsOf(i, n) # {}

Confirmations == {"TxConfirmed", "InvoicePaid"}

\* C10: webhook causal order.  For two jobs of one invoice, the earlier one
\* first: TxDetected never follows TxConfirmed or InvoicePaid; InvoiceExpired
\* never follows TxConfirmed or InvoicePaid; TxConfirmed and InvoicePaid never
\* follow InvoiceExpired.
C10_CausalOrder ==
    \A a \in 1..Len(webhooks) : \A b \in (a + 1)..Len(webhooks) :
        webhooks[a].invoice_id = webhooks[b].invoice_id =>
            /\ ~(/\ webhooks[a].event_type \in Confirmations
                 /\ webhooks[b].event_type = "TxDetected")
            /\ ~(/\ webhooks[a].event_type \in Confirmations
                 /\ webhooks[b].event_type = "InvoiceExpired")
            /\ ~(/\ webhooks[a].event_type = "InvoiceExpired"
                 /\ webhooks[b].event_type \in Confirmations)

(***************************************************************************)
(* SpecReuse: invoices are created one after the other, so that the        *)
(* address index of a paid invoice is taken again; the ingestor, the       *)
(* watcher and the confirmator run concurrently and the process may crash  *)
(* and restart.  No invoice expires.                                       *)
(***************************************************************************)
InitReuse ==
    /\ base = PersistEvery - 1
    /\ PipelineInit(base)
    /\ required_confirmations \in 0..MaxConfirmations
    /\ block_lag = 0
    /\ cre = [k \in 1..MaxInvoices |-> CreIdle]
    /\ PureIdle

\* the caller issues request k when its earlier requests have returned
CreateRequest(k) ==
    /\ \A j \in 1..(k - 1) : cre[j].pc = "done"
    /\ CreateGetSlot(k)

NextReuse ==
    \/ MineBlock
    \/ \E k \in 1..MaxInvoices : CreateRequest(k)
    \/ \E k \in 1..MaxInvoices : CreateAddInvoice(k)
    \/ \E k \in 1..MaxInvoices : CreateAddWatch(k)
    \/ IngRead
    \/ IngPollOk
    \/ IngFetchOk
    \/ IngNative
    \/ IngLogsOk
    \/ IngPersistOk
    \/ WatcherDrop
    \/ WatcherLookup
    \/ WatcherAttemptOk
    \/ WatcherWebhook
    \/ ConfTick
    \/ ConfWait
    \/ ConfThreshold
    \/ ConfLookup
    \/ ConfFinalize
    \/ ConfPaidHook
    \/ ConfRemoveWatch
    \/ ConfConfirmedHook
    \/ CrashRestart

SpecReuse == InitReuse /\ [][NextReuse]_vars

\* C2: no double credit.  Each on-chain transfer (tx_hash, log_index) adds
\* its amount to paid_raw at most once: no two finalizations, of one invoice
\* or of two, credit the same transfer.
C2_NoDoubleCredit ==
    \A a \in 1..Len(credits) : \A b \in 1..Len(credits) :
        (credits[a].tx_hash = credits[b].tx_hash /\
         credits[a].log_index = credits[b].log_index) => a = b

(***************************************************************************)
(* SpecCreate: invoice creation requests that run concurrently, while the  *)
(* janitor expires invoices.                                               *)
(***************************************************************************)
InitCreate ==
    /\ base = PersistEvery - 1
    /\ PipelineInit(base)
    /\ required_confirmations = 0
    /\ block_lag = 0
    /\ cre = [k \in 1..MaxInvoices |-> CreIdle]
    /\ PureIdle

NextCreate ==
    \/ \E k \in 1..MaxInvoices : CreateGetSlot(k)
    \/ \E k \in 1..MaxInvoices : CreateAddInvoice(k)
    \/ \E k \in 1..MaxInvoices : CreateAddWatch(k)
    \/ JanExpire
    \/ JanHook
    \/ JanRemove

SpecCreate == InitCreate /\ [][NextCreate]_vars

\* C8: at most one Pending invoice per (chain, address).  No two Pending
\* invoices hold the same address_index, nor the same address.
C8_OnePendingPerAddress ==
    \A i \in 1..Len(invoices) : \A j \in 1..Len(invoices) :
        (i # j /\ invoices[i].status = "Pending" /\ invoices[j].status = "Pending")
            => /\ invoices[i].address_index # invoices[j].address_index
               /\ invoices[i].address # invoices[j].address

(***************************************************************************)
(* SpecAttempt: add_payment_attempt applied to a payments table, call      *)
(* after call, with finalizations of rows in between.                      *)
(***************************************************************************)
AttemptInvoices == 1..2
AttemptHashes == 1..2
AttemptLogIndexes == {None, Some(0), Some(1)}
AttemptAmounts == 1..2

InitAttempt ==
    /\ base = PersistEvery - 1
    /\ PipelineInit(base)
    /\ required_confirmations = 0
    /\ block_lag = 0
    /\ cre = <<CreIdle>>
    /\ PureIdle

\* the k-th call reports block base + k
CallAddPaymentAttempt ==
    /\ Len(att_keys) < MaxAttempts
    /\ \E invoice_id \in AttemptInvoices, tx_hash \in AttemptHashes,
          log_index \in AttemptLogIndexes, amount_raw \in AttemptAmounts :
           /\ payments' = add_payment_attempt(payments, invoice_id, derive_address(0),
                              tx_hash, amount_raw, base + Len(att_keys) + 1, log_index)
           /\ att_keys' = Append(att_keys, <<invoice_id, tx_hash, log_index>>)
    /\ UNCHANGED <<invoices, webhooks, lpb_db, required_confirmations, block_lag,
                   proc_vars, env_vars, hist_vars, slot_busy, slot_result, slot_called,
                   hook_vars, cfg_vars, aux_vars>>

\* UPDATE payments SET status = 'Confirmed' WHERE id = $1
CallFinalize ==
    /\ \E id \in 1..Len(payments) :
           /\ payments[id].status = "Confirming"
           /\ payments' = finalize_payment_payments(payments, id)
    /\ UNCHANGED <<invoices, webhooks, lpb_db, required_confirmations, block_lag,
                   proc_vars, env_vars, hist_vars, pure_vars,
                   hook_vars, cfg_vars, aux_vars>>

NextAttempt == CallAddPaymentAttempt \/ CallFinalize

SpecAttempt == InitAttempt /\ [][NextAttempt]_vars

\* C7: idempotent payment insert.  The table holds exactly one row for each
\* (invoice_id, tx_hash, log_index) that add_payment_attempt was called
\* with: calls with the same key leave one row, calls that differ in tx_hash
\* or in log_index leave distinct rows.
C7_OneRowPerKey ==
    Len(payments) = Cardinality(Range(att_keys))

(***************************************************************************)
(* SpecWebhook: the webhook dispatcher over the relational backend.  An    *)
(* invoice with a webhook_url is created, jobs are enqueued for it, the    *)
(* dispatcher leases them and every delivery succeeds or fails; the store  *)
(* may fail and the process may crash and restart.                         *)
(***************************************************************************)
InitWebhook ==
    /\ base = PersistEvery - 1
    /\ PipelineInit(base)
    /\ required_confirmations = 0
    /\ block_lag = 0
    /\ cre = <<CreIdle>>
    /\ PureIdle

\* a task of the pipeline calls add_webhook_job for the invoice
EnqueueJob ==
    /\ Len(webhooks) < MaxJobs
    /\ invoices # <<>>
    /\ webhooks' = add_webhook_job(webhooks, invoices, 1,
                       [event_type |-> "TxDetected", tx_hash |-> Len(webhooks) + 1,
                        confirmations |-> None])
    /\ UNCHANGED <<invoices, payments, lpb_db, required_confirmations, block_lag,
                   proc_vars, env_vars, hist_vars, pure_vars, hook_vars, cfg_vars, aux_vars>>

NextWebhook ==
    \/ CreateGetSlot(1)
    \/ CreateAddInvoice(1)
    \/ CreateAddWatch(1)
    \/ EnqueueJob
    \/ PgSelect(1)
    \/ \E t \in tasks : TaskPostOk(t)
    \/ \E t \in tasks : TaskPostFail(t)
    \/ \E t \in tasks : TaskSetSent(t)
    \/ \E t \in tasks : TaskRetry(t)
    \/ \E t \in tasks : TaskStoreErr(t)
    \/ Elapse
    \/ CrashRestart

SpecWebhook == InitWebhook /\ [][NextWebhook]_vars

\* the tasks that hold job j
Holders(j) == {t \in tasks : t.id = j}

\* C12: webhook retry bound.  A job is POSTed at most max_retries times; a
\* failed delivery whose attempts + 1 reaches max_retries leaves the job
\* Failed (unless the store call fails); a job that is Sent or Failed keeps
\* its status, is not leased and is not POSTed again.
C12_RetryBound ==
    [][ /\ \A j \in 1..Len(webhooks') : PostCount(j)' <= webhooks'[j].max_retries
        /\ \A t \in tasks :
               (/\ t.pc = "retry"
                /\ t.attempts + 1 >= t.max_retries
                /\ t \notin tasks'
                /\ crashes' = crashes)
               => \/ webhooks'[t.id].status = "Failed"
                  \/ webhooks' = webhooks
        /\ \A j \in 1..Len(webhooks) :
               webhooks[j].status \in {"Sent", "Failed"} =>
                   /\ webhooks'[j] = webhooks[j]
                   /\ PostCount(j)' = PostCount(j)
                   /\ Holders(j)' \subseteq Holders(j)
      ]_vars

\* C13: webhook retry schedule.  When the delivery of a leased job with
\* attempts = a has failed and a + 1 < max_retries, handle_retry leaves the
\* job Pending with attempts = a + 1 and next_retry = now + 2^(a+1) seconds
\* (the row is left as it is when the store call fails); a job is leased only
\* when it is Pending and its next_retry has come.
C13_RetrySchedule ==
    [][ /\ \A t \in tasks :
               (/\ t.pc = "retry"
                /\ t.attempts + 1 < t.max_retries
                /\ t \notin tasks'
                /\ crashes' = crashes)
               => \/ /\ webhooks'[t.id].status = "Pending"
                     /\ webhooks'[t.id].attempts = t.attempts + 1
                     /\ webhooks'[t.id].next_retry = now + 2 ^ (t.attempts + 1)
                     /\ t.attempts = 0 => webhooks'[t.id].next_retry = now + 2
                  \/ webhooks' = webhooks
        /\ \A j \in 1..Len(webhooks) :
               (webhooks'[j].status = "Processing" /\ webhooks[j].status # "Processing")
               => /\ webhooks[j].status = "Pending"
                  /\ webhooks[j].next_retry <= now
      ]_vars

\* a job whose first and second deliveries failed waits for its next_retry,
\* 4 s after the second failure, which has not come
C13_Witness ==
    \E j \in 1..Len(webhooks) :
        /\ webhooks[j].status = "Pending"
        /\ webhooks[j].attempts = 2
        /\ PostCount(j) = 2
        /\ webhooks[j].next_retry = now + 4
        /\ crashes = 0

\* C14: webhook crash recovery.  The startup recovery that follows a crash
\* leaves no job Processing: every job that was Processing is Pending, with
\* its attempts and next_retry as they were, and it is due, so the dispatcher
\* can lease it; the other jobs are as they were.
C14_CrashRecovery ==
    [][ crashes' # crashes =>
            \A j \in 1..Len(webhooks) :
                /\ webhooks'[j].status # "Processing"
                /\ webhooks[j].status = "Processing" =>
                       /\ webhooks'[j] = [webhooks[j] EXCEPT !.status = "Pending"]
                       /\ j \in due_jobs(webhooks', now')
                /\ webhooks[j].status # "Processing" => webhooks'[j] = webhooks[j]
      ]_vars

\* a job that was leased and POSTed before the crash is Pending after the
\* restart, its attempts unchanged, and is leased again
C14_Witness ==
    /\ crashes = 1
    /\ \E t \in tasks :
           /\ t.pc = "post"
           /\ t.attempts = 0
           /\ PostCount(t.id) = 1
           /\ webhooks[t.id].status = "Processing"

(***************************************************************************)
(* SpecLease: select_webhooks_job called by two dispatcher loops at once,  *)
(* over the relational backend or over the mock backend.  The store holds  *)
(* an invoice with a webhook_url and the jobs enqueued for it so far, none *)
(* of them leased: no job, or more jobs than one lease takes.  Over the    *)
(* relational backend the two loops are two instances of the process, and  *)
(* an instance may restart.                                                *)
(***************************************************************************)
Callers == 1..2

\* the table after n calls of add_webhook_job at time 0
Enqueued(n) ==
    [j \in 1..n |-> [invoice_id |-> 1, event_type |-> "TxDetected", tx_hash |-> j,
                       confirmations |-> None,
                     status |-> "Pending", attempts |-> 0,
                     max_retries |-> MaxRetries, next_retry |-> 0]]

InitLease ==
    /\ base = PersistEvery - 1
    /\ invoices = <<[address_index |-> 0, address |-> derive_address(0),
                     token |-> NativeSymbol, amount_raw |-> 2, paid_raw |-> 0,
                     status |-> "Pending", webhook_url |-> TRUE]>>
    /\ payments = <<>>
    /\ \E n \in {0, LeaseLimit + 1} : webhooks = Enqueued(n)
    /\ lpb_db = base
    /\ lpb = base
    /\ required_confirmations = 0
    /\ block_lag = 0
    /\ watch_addresses = {derive_address(0)}
    /\ chan = <<>>
    /\ active = TRUE
    /\ ing = IngBegin
    /\ wat = WatIdle
    /\ conf = ConfIdle
    /\ jan = JanIdle
    /\ cre = <<[pc |-> "done", slot |-> 0, id |-> 1]>>
    /\ chain = <<>>
    /\ crashes = 0
    /\ stops = 0
    /\ start_block = base
    /\ completed = {}
    /\ matched = {}
    /\ emitted = {}
    /\ credits = <<>>
    /\ rpc_failed = FALSE
    /\ now = 0
    /\ disp = [d \in Callers |-> DispIdle]
    /\ tasks = {}
    /\ posts = <<>>
    /\ backend \in {"postgres", "mock"}
    /\ payers = TransferIds
    /\ PureInit

\* a task of the pipeline calls add_webhook_job for the invoice
EnqueueLeaseJob ==
    /\ Len(webhooks) < MaxLeaseJobs
    /\ webhooks' = add_webhook_job(webhooks, invoices, 1,
                       [event_type |-> "TxDetected", tx_hash |-> Len(webhooks) + 1,
                        confirmations |-> None])
    /\ UNCHANGED <<invoices, payments, lpb_db, required_confirmations, block_lag,
                   proc_vars, env_vars, hist_vars, pure_vars, hook_vars, cfg_vars, aux_vars>>

\* instance d of the process restarts: its tasks die with it, and
\* Postgres::init runs on the store that the instances share
InstanceRestart(d) ==
    /\ backend = "postgres"
    /\ crashes < MaxRestarts
    /\ crashes' = crashes + 1
    /\ webhooks' = recover_webhooks(webhooks)
    /\ disp' = [disp EXCEPT ![d] = DispIdle]
    /\ tasks' = {t \in tasks : t.d # d}
    /\ UNCHANGED <<invoices, payments, lpb_db, required_confirmations, block_lag,
                   proc_vars, base, chain, stops, hist_vars, pure_vars, now, posts,
                   cfg_vars, aux_vars>>

\* the deliveries that return within the behaviour
Delivered(t) == t.id <= MaxDelivered /\ PostCount(t.id) < MaxLeasePosts

NextLease ==
    \/ EnqueueLeaseJob
    \/ \E d \in Callers : PgSelect(d)
    \/ \E d \in Callers : MockCollect(d)
    \/ \E d \in Callers : MockMark(d)
    \/ \E t \in tasks : Delivered(t) /\ TaskPostOk(t)
    \/ \E t \in tasks : Delivered(t) /\ TaskPostFail(t)
    \/ \E t \in tasks : TaskSetSent(t)
    \/ \E t \in tasks : TaskRetry(t)
    \/ Elapse
    \/ \E d \in Callers : InstanceRestart(d)

SpecLease == InitLease /\ [][NextLease]_vars

\* the tasks that a step spawns
Spawned == {t \in tasks' : t \notin tasks /\ t.pc = "post"}

\* C11: webhook lease exclusivity.  A call of select_webhooks_job returns at
\* most 50 jobs; each of them was Pending with next_retry <= now when the
\* call took it and is Processing after the call; and no job is held by two
\* callers at once.
C11_LeaseExclusive ==
    [][ /\ Cardinality(Spawned) <= LeaseLimit
        /\ \A t \in Spawned :
               /\ webhooks[t.id].status = "Pending"
               /\ webhooks[t.id].next_retry <= now
               /\ webhooks'[t.id].status = "Processing"
        /\ \A t \in tasks' : \A u \in tasks' : t.id = u.id => t = u
      ]_vars

(***************************************************************************)
(* SpecReorg: the pipeline on a chain that reorganizes, over the           *)
(* relational backend or the mock backend.  One invoice is created; the    *)
(* RPC node answers every call; no invoice expires and the process does    *)
(* not crash.                                                              *)
(***************************************************************************)
InitReorg ==
    /\ base = PersistEvery - 1
    /\ PipelineInit(base)
    /\ required_confirmations \in 0..MaxConfirmations
    /\ block_lag = 0
    /\ cre = <<CreIdle>>
    /\ PureInit
    /\ disp = <<DispIdle>>
    /\ backend \in {"postgres", "mock"}
    /\ payers = TransferIds

NextReorg ==
    \/ MineBlock
    \/ Reorg
    \/ CreateGetSlot(1)
    \/ CreateAddInvoice(1)
    \/ CreateAddWatch(1)
    \/ IngRead
    \/ IngPollOk
    \/ IngFetchOk
    \/ IngNative
    \/ IngLogsOk
    \/ IngPersistOk
    \/ WatcherDrop
    \/ WatcherLookup
    \/ WatcherAttemptOk
    \/ WatcherWebhook
    \/ ConfTick
    \/ ConfWait
    \/ ConfThreshold
    \/ ConfErr
    \/ ConfLookup
    \/ ConfNotFound
    \/ ConfFinalize
    \/ ConfReorg
    \/ ConfReorgPanic
    \/ ConfPaidHook
    \/ ConfRemoveWatch
    \/ ConfConfirmedHook

SpecReorg == InitReorg /\ [][NextReorg]_vars

\* a payment passes from Confirming to Confirmed in the step
Finalized(p) == payments[p].status = "Confirming" /\ payments'[p].status = "Confirmed"

\* C15: finalization precondition.  A payment is finalized only by the
\* confirmator, for the payment p it has at hand, when last_processed_block
\* >= p.block_number + required_confirmations and get_tx_block_number
\* returned Some(p.block_number).  When the confirmator leaves a payment
\* because the threshold is not reached or because the lookup returned None
\* or an error, the payment stays Confirming and the payments, the invoices,
\* the webhook queue and the watch-set are as they were.
C15_FinalizePrecondition ==
    [][ /\ \A p \in 1..Len(payments) :
               Finalized(p) =>
                   /\ conf.pc = "finalize"
                   /\ Head(conf.queue).id = p
                   /\ lpb >= Head(conf.queue).block_number + required_confirmations
                   /\ conf.actual = Some(Head(conf.queue).block_number)
        /\ (conf.pc \in {"loop", "verify"} /\ conf' # conf /\ conf' = ConfPop) =>
               /\ payments[Head(conf.queue).id].status = "Confirming"
               /\ payments' = payments
               /\ invoices' = invoices
               /\ webhooks' = webhooks
               /\ watch_addresses' = watch_addresses
      ]_vars

\* a payment has just been finalized under required_confirmations = 1, one
\* block after its own, and its transaction is in the block it records
C15_Witness ==
    /\ conf.pc \in {"paid", "confirmed"}
    /\ required_confirmations = 1
    /\ LET row == payments[Head(conf.queue).id]
       IN  /\ row.status = "Confirmed"
           /\ lpb = row.block_number + 1
           /\ get_tx_block_number(row.tx_hash) = Some(row.block_number)

\* C16: reorg handling.  When get_tx_block_number returns a block that
\* differs from the payment's block_number, the confirmator sets the row's
\* block_number to that block, leaves the payment Confirming and goes on to
\* the next payment, so that the payment is not finalized in that tick; a
\* payment is finalized only in a tick that read its block_number b from the
\* store, when last_processed_block >= b + required_confirmations and the
\* lookup returned b.
C16_ReorgHandling ==
    [][ /\ (conf.pc = "reorg" /\ conf' # conf) =>
               /\ payments'[Head(conf.queue).id].block_number = conf.actual[1]
               /\ payments'[Head(conf.queue).id].status = "Confirming"
               /\ invoices' = invoices
               /\ webhooks' = webhooks
               /\ conf' = ConfPop
        /\ (conf'.pc = "loop" /\ conf' # conf) =>
               \A k \in 1..Len(conf'.queue) :
                   (conf.pc = "idle" /\ payments[conf'.queue[k].id].status = "Confirming"
                        => conf'.queue[k].block_number
                               = payments[conf'.queue[k].id].block_number)
        /\ \A p \in 1..Len(payments) :
               Finalized(p) =>
                   /\ conf.pc = "finalize"
                   /\ conf.actual # None
                   /\ conf.actual[1] = Head(conf.queue).block_number
                   /\ lpb >= conf.actual[1] + required_confirmations
      ]_vars

(***************************************************************************)
(* SpecParts: one invoice of amount 2 and two native transfers of 1 to its *)
(* address, in different transactions, over the relational backend or the  *)
(* mock backend.  The RPC node and the store answer every call; no invoice *)
(* expires, the chain does not reorganize and the process does not crash.  *)
(***************************************************************************)
PartsPayers == {n \in 1..(2 * MaxTransfers) : n % 2 = 1}

InitParts ==
    /\ base = PersistEvery - 1
    /\ PipelineInit(base)
    /\ required_confirmations \in 0..MaxConfirmations
    /\ block_lag = 0
    /\ cre = <<CreIdle>>
    /\ PureInit
    /\ disp = <<DispIdle>>
    /\ backend \in {"postgres", "mock"}
    /\ payers = PartsPayers

NextParts ==
    \/ MineBlock
    \/ CreateGetSlot(1)
    \/ CreateAddInvoice(1)
    \/ CreateAddWatch(1)
    \/ IngRead
    \/ IngPollOk
    \/ IngFetchOk
    \/ IngNative
    \/ IngLogsOk
    \/ IngPersistOk
    \/ WatcherDrop
    \/ WatcherLookup
    \/ WatcherAttemptOk
    \/ WatcherWebhook
    \/ ConfTick
    \/ ConfWait
    \/ ConfThreshold
    \/ ConfLookup
    \/ ConfFinalize
    \/ ConfPaidHook
    \/ ConfRemoveWatch
    \/ ConfConfirmedHook

SpecParts == InitParts /\ [][NextParts]_vars

(***************************************************************************)
(* The effects of a confirmation (SpecParts).                              *)
(***************************************************************************)
\* the last row of the webhooks table is a job of `invoice_id` for `event_type`
LastJobIs(hooks, invoice_id, event_type) ==
    /\ hooks # <<>>
    /\ hooks[Len(hooks)].invoice_id = invoice_id
    /\ hooks[Len(hooks)].event_type = event_type
    /\ hooks[Len(hooks)].status = "Pending"

JobsOf(i, event_type) ==
    {j \in 1..Len(webhooks) :
        webhooks[j].invoice_id = i /\ webhooks[j].event_type = event_type}

\* the payment rows of invoice i
PaymentsOf(i) == {p \in 1..Len(payments) : payments[p].invoice_id = i}

\* both transfers to invoice i were detected and nothing is left to confirm
PartsSettled(i) ==
    /\ Cardinality(JobsOf(i, "TxDetected")) = Cardinality(PartsPayers)
    /\ \A p \in PaymentsOf(i) : payments[p].status = "Confirmed"
    /\ conf.pc = "idle"
    /\ wat.pc = "idle"

\* C18: underpayment in two parts.  For an invoice of amount A that receives
\* two transfers in different transactions whose amounts sum to A: every
\* TxDetected job stands for a payment row of its transaction (two rows, two
\* jobs); the confirmation of the first row leaves the invoice Pending and
\* is followed by TxConfirmed; once both transfers were detected and
\* confirmed the invoice is Paid with paid_raw = amount_raw, with one
\* TxConfirmed job and, after it, one InvoicePaid job.
C18_TwoParts ==
    /\ [](\A i \in 1..Len(invoices) :
            /\ \A j \in JobsOf(i, "TxDetected") : \E p \in PaymentsOf(i) :
                   payments[p].tx_hash = webhooks[j].tx_hash
            /\ Cardinality(JobsOf(i, "TxDetected")) <= Cardinality(PaymentsOf(i))
            /\ PartsSettled(i) =>
                   /\ Cardinality(PaymentsOf(i)) = Cardinality(PartsPayers)
                   /\ invoices[i].status = "Paid"
                   /\ invoices[i].paid_raw = invoices[i].amount_raw
                   /\ Cardinality(JobsOf(i, "TxConfirmed")) = 1
                   /\ Cardinality(JobsOf(i, "InvoicePaid")) = 1
                   /\ \A a \in JobsOf(i, "TxConfirmed"), b \in JobsOf(i, "InvoicePaid") :
                          a < b)
    /\ [][\A p \in 1..Len(payments) :
              (Finalized(p) /\ ConfirmedOf(payments[p].invoice_id) = {}) =>
                  /\ invoices'[payments[p].invoice_id].status = "Pending"
                  /\ conf'.pc = "confirmed"]_vars

(***************************************************************************)
(* SpecExpiry: invoices are created one after the other while the janitor  *)
(* expires invoices; the ingestor, the watcher and the confirmator run     *)
(* concurrently.  The process does not crash.                              *)
(***************************************************************************)
NextExpiry ==
    \/ MineBlock
    \/ \E k \in 1..MaxInvoices : CreateRequest(k)
    \/ \E k \in 1..MaxInvoices : CreateAddInvoice(k)
    \/ \E k \in 1..MaxInvoices : CreateAddWatch(k)
    \/ IngRead
    \/ IngPollOk
    \/ IngFetchOk
    \/ IngNative
    \/ IngLogsOk
    \/ IngPersistOk
    \/ WatcherDrop
    \/ WatcherLookup
    \/ WatcherAttemptOk
    \/ WatcherWebhook
    \/ ConfTick
    \/ ConfWait
    \/ ConfThreshold
    \/ ConfLookup
    \/ ConfFinalize
    \/ ConfPaidHook
    \/ ConfRemoveWatch
    \/ ConfConfirmedHook
    \/ JanExpire
    \/ JanHook
    \/ JanRemove

SpecExpiry == InitReuse /\ [][NextExpiry]_vars

\* the invoices the janitor's tick has expired and not yet handled
Unhandled == {jan.expired[k] : k \in 1..Len(jan.expired)}

\* C19: expiry.  The statement of a janitor tick sets the Pending invoices
\* that are due to Expired and leaves every other row as it is; for each
\* invoice it expired the tick enqueues one InvoiceExpired job, and at its
\* end none of their addresses is in the watch-set; an invoice is returned by
\* expire_old_invoices at most once, so that at no time it has two
\* InvoiceExpired jobs, and it has exactly one when its tick has handled it.
C19_Expiry ==
    /\ [](\A i \in 1..Len(invoices) :
            /\ Cardinality(JobsOf(i, "InvoiceExpired")) <= 1
            /\ JobsOf(i, "InvoiceExpired") # {} => invoices[i].status # "Pending"
            /\ (invoices[i].status = "Expired" /\ i \notin Unhandled) =>
                   Cardinality(JobsOf(i, "InvoiceExpired")) = 1
            /\ i \in Unhandled => JobsOf(i, "InvoiceExpired") = {})
    /\ [][ /\ (jan.pc = "idle" /\ jan'.pc = "hooks") =>
                 /\ jan'.expired # <<>>
                 /\ \A i \in 1..Len(invoices) :
                        /\ i \in {jan'.expired[k] : k \in 1..Len(jan'.expired)} =>
                               /\ invoices[i].status = "Pending"
                               /\ invoices'[i] = [invoices[i] EXCEPT !.status = "Expired"]
                        /\ i \notin {jan'.expired[k] : k \in 1..Len(jan'.expired)} =>
                               invoices'[i] = invoices[i]
                 /\ \A k, l \in 1..Len(jan'.expired) :
                        jan'.expired[k] = jan'.expired[l] => k = l
           /\ (jan.pc = "hooks" /\ jan' # jan /\ jan.expired # <<>>) =>
                 /\ Len(webhooks') = Len(webhooks) + 1
                 /\ LastJobIs(webhooks', Head(jan.expired), "InvoiceExpired")
                 /\ invoices[Head(jan.expired)].address \in jan'.to_remove
                 /\ jan.to_remove \subseteq jan'.to_remove
                 /\ jan'.expired = Tail(jan.expired)
           /\ (jan.pc = "hooks" /\ jan' # jan /\ jan.expired = <<>>) =>
                 /\ jan'.pc = "idle"
                 /\ watch_addresses' \cap jan.to_remove = {}
                 /\ watch_addresses' \subseteq watch_addresses ]_vars

\* a tick has expired one invoice and left a Paid one alone, and has ended:
\* the job is in the table and the address is not watched
C19_Witness ==
    \E i, j \in 1..Len(invoices) :
        /\ invoices[i].status = "Expired"
        /\ invoices[j].status = "Paid"
        /\ Cardinality(JobsOf(i, "InvoiceExpired")) = 1
        /\ JobsOf(j, "InvoiceExpired") = {}
        /\ jan.pc = "idle"
        /\ invoices[i].address \notin watch_addresses

(***************************************************************************)
(* The order of the Payment Events (SpecIngest).                           *)
(***************************************************************************)
\* process_transactions runs before process_logs: 0 for the event of a
\* native transfer (log_index: None), 1 for the event of a token log
EventRank(event) == IF event.log_index = None THEN 0 ELSE 1

\* the events of a channel are in the order of their blocks and, in a
\* block, the native transfers come before the token logs
ChannelOrdered(c) ==
    \A k, l \in 1..Len(c) :
        k < l => \/ c[k].block_number < c[l].block_number
                 \/ /\ c[k].block_number = c[l].block_number
                    /\ EventRank(c[k]) <= EventRank(c[l])

\* the listen task is the same task before and after the step
SameRun == ing.pc \notin {"none", "begin"} /\ ing'.pc \notin {"none", "begin"}

ReceiverDrop ==
    /\ rx_open
    /\ rx_open' = FALSE
    /\ chan' = <<>>
    /\ wat' = WatIdle
    /\ UNCHANGED <<store_vars, lpb, watch_addresses, active, ing, conf, jan, cre,
                   env_vars, hist_vars, pure_vars, hook_vars, cfg_vars, fin, mock, ret, reqs, logq, sup, lk>>

NextChannel ==
    \/ MineBlock
    \/ WatchAdd
    \/ IngRead
    \/ IngTip0Ok
    \/ IngPollOk
    \/ IngFetchOk
    \/ IngNative
    \/ IngLogsOk
    \/ IngPersistOk
    \/ WatcherDrop
    \/ ReceiverDrop

SpecChannel == InitIngest /\ [][NextChannel]_vars

\* the events the ingestor's next step has to send
EventsAtHand ==
    IF ing.pc = "native"
    THEN process_transactions(BlockTxs(ing.block_num), ing.address_set)
    ELSE IF ing.pc = "logs"
         THEN process_logs(LogsOf(ing.block_num), ing.address_set)
         ELSE {}

\* C21: channel failure is fatal.  When the ingestor has an event to send
\* and the Receiver of the channel is gone, the ingestor exits: it neither
\* goes on with the block nor marks it as processed.
C21_ChannelFatal ==
    [][(~rx_open /\ EventsAtHand # {} /\ ing' # ing) =>
           (ing'.pc = "dead" /\ lpb' = lpb /\ lpb_db' = lpb_db)]_vars

(***************************************************************************)
(* SpecFinalize: finalize_payment called concurrently for the two          *)
(* Confirming payments (amount 1 each) of one invoice (amount 1, 2 or 3),  *)
(* over the relational backend or the mock backend, while remove_invoice   *)
(* may delete the invoice.  A deleted row keeps its position with status   *)
(* "Deleted" (ids are positions).                                          *)
(*   fin[c].pc: "call", "invoice" (the mock backend, between its two       *)
(*   critical sections), "done"                                            *)
(***************************************************************************)
FinCallers == 1..MaxTransfers

FinIdle(payment_id) ==
    [pc |-> "call", payment_id |-> payment_id, invoice_id |-> 0, amount_to_add |-> 0,
     result |-> "none"]

InitFinalize ==
    /\ base = PersistEvery - 1
    /\ PipelineInit(base)
    /\ required_confirmations = 0
    /\ block_lag = 0
    /\ cre = <<CreIdle>>
    /\ slot_busy = Err
    /\ slot_result = None
    /\ slot_called = FALSE
    /\ att_keys = <<>>
    /\ rx_open = TRUE
    /\ mock = <<>>
    /\ ret = <<>>
    /\ reqs = <<>>
    /\ logq = <<>>
    /\ sup = <<>>
    /\ lk = <<>>
    /\ disp = <<DispIdle>>
    /\ backend \in {"postgres", "mock"}
    /\ payers = PartsPayers
    /\ fin = [c \in FinCallers |-> FinIdle(0)]

\* the store is filled: add_invoice, then add_payment_attempt for each of
\* the two transfers (in the rows of the relational backend)
FinSetup ==
    /\ invoices = <<>>
    /\ \E amount_raw \in 1..MaxAmount :
           invoices' = add_invoice(invoices,
               [address_index |-> 0, address |-> derive_address(0),
                token |-> NativeSymbol, amount_raw |-> amount_raw, paid_raw |-> 0,
                status |-> "Pending", webhook_url |-> TRUE])
    /\ payments' = [c \in FinCallers |->
           [invoice_id |-> 1, to |-> derive_address(0), tx_hash |-> InOrder(PartsPayers)[c],
            amount_raw |-> Transfer(InOrder(PartsPayers)[c]).amount_raw,
            block_number |-> base + 1, status |-> "Confirming"]]
    /\ fin' = [c \in FinCallers |-> FinIdle(c)]
    /\ UNCHANGED <<webhooks, lpb_db, required_confirmations, block_lag, proc_vars,
                   env_vars, hist_vars, pure_vars, hook_vars, cfg_vars, rx_open, mock, ret, reqs, logq, sup, lk>>

\* Postgres::remove_invoice: DELETE FROM invoices WHERE id = $1 (the payments
\* of the invoice go with it); MockDatabase::remove_invoice:
\* self.invoices.remove(uuid) (the payments stay)
remove_invoice(invs, id) == [invs EXCEPT ![id].status = "Deleted"]

remove_invoice_payments(pays, id) ==
    IF backend = "mock" THEN pays
    ELSE [p \in 1..Len(pays) |->
             IF pays[p].invoice_id = id THEN [pays[p] EXCEPT !.status = "Deleted"]
             ELSE pays[p]]

RemoveInvoice ==
    /\ \E id \in 1..Len(invoices) :
           /\ invoices[id].status # "Deleted"
           /\ invoices' = remove_invoice(invoices, id)
           /\ payments' = remove_invoice_payments(payments, id)
    /\ UNCHANGED <<webhooks, lpb_db, required_confirmations, block_lag, proc_vars,
                   env_vars, hist_vars, pure_vars, hook_vars, cfg_vars, aux_vars>>

\* Postgres::finalize_payment => Ok(is_fully_paid): the transaction commits
PgFinalizeOk(c) ==
    /\ backend = "postgres"
    /\ fin[c].pc = "call"
    /\ fin[c].payment_id # 0
    /\ payments[fin[c].payment_id].status # "Deleted"
    /\ payments' = finalize_payment_payments(payments, fin[c].payment_id)
    /\ invoices' = finalize_payment_invoices(payments, invoices, fin[c].payment_id)
    /\ fin' = [fin EXCEPT ![c].pc = "done",
                          ![c].result =
                              IF finalize_payment_result(payments, invoices,
                                                         fin[c].payment_id)
                              THEN "true" ELSE "false"]
    /\ UNCHANGED <<webhooks, lpb_db, required_confirmations, block_lag, proc_vars,
                   env_vars, hist_vars, pure_vars, hook_vars, cfg_vars, rx_open, mock, ret, reqs, logq, sup, lk>>

\* Postgres::finalize_payment => Err: a statement fails (fetch_one finds no
\* row, or the connection is lost) and the transaction is rolled back
PgFinalizeErr(c) ==
    /\ backend = "postgres"
    /\ fin[c].pc = "call"
    /\ fin[c].payment_id # 0
    /\ fin' = [fin EXCEPT ![c].pc = "done", ![c].result = "err"]
    /\ UNCHANGED <<store_vars, proc_vars, env_vars, hist_vars, pure_vars, hook_vars,
                   cfg_vars, rx_open, mock, ret, reqs, logq, sup, lk>>

\* MockDatabase::finalize_payment, first block: the payment is found, set
\* to Confirmed, and (invoice_id, amount_raw) is taken from it
MockFinConfirm(c) ==
    /\ backend = "mock"
    /\ fin[c].pc = "call"
    /\ fin[c].payment_id # 0
    /\ payments' = [payments EXCEPT ![fin[c].payment_id].status = "Confirmed"]
    /\ fin' = [fin EXCEPT ![c].pc = "invoice",
                          ![c].invoice_id = payments[fin[c].payment_id].invoice_id,
                          ![c].amount_to_add = payments[fin[c].payment_id].amount_raw]
    /\ UNCHANGED <<invoices, webhooks, lpb_db, required_confirmations, block_lag,
                   proc_vars, env_vars, hist_vars, pure_vars, hook_vars, cfg_vars,
                   rx_open, mock, ret, reqs, logq, sup, lk>>

\* second block: self.invoices.get_mut(&invoice_id) => Some: paid_raw +=
\* amount_to_add; if paid_raw >= amount_raw { status = Paid; Ok(true) }
MockFinAdd(c) ==
    /\ fin[c].pc = "invoice"
    /\ invoices[fin[c].invoice_id].status # "Deleted"
    /\ LET inv == invoices[fin[c].invoice_id]
           paid == inv.paid_raw + fin[c].amount_to_add
       IN  /\ invoices' = [invoices EXCEPT
                  ![fin[c].invoice_id].paid_raw = paid,
                  ![fin[c].invoice_id].status =
                      IF is_fully_paid(paid, inv.amount_raw) THEN "Paid" ELSE @]
           /\ fin' = [fin EXCEPT ![c].pc = "done",
                                 ![c].result = IF is_fully_paid(paid, inv.amount_raw)
                                               THEN "true" ELSE "false"]
    /\ UNCHANGED <<payments, webhooks, lpb_db, required_confirmations, block_lag,
                   proc_vars, env_vars, hist_vars, pure_vars, hook_vars, cfg_vars,
                   rx_open, mock, ret, reqs, logq, sup, lk>>

\* second block: get_mut => None: Err("Invoice {} not found")
MockFinMissing(c) ==
    /\ fin[c].pc = "invoice"
    /\ invoices[fin[c].invoice_id].status = "Deleted"
    /\ fin' = [fin EXCEPT ![c].pc = "done", ![c].result = "err"]
    /\ UNCHANGED <<store_vars, proc_vars, env_vars, hist_vars, pure_vars, hook_vars,
                   cfg_vars, rx_open, mock, ret, reqs, logq, sup, lk>>

NextFinalize ==
    \/ FinSetup
    \/ RemoveInvoice
    \/ \E c \in FinCallers : PgFinalizeOk(c)
    \/ \E c \in FinCallers : PgFinalizeErr(c)
    \/ \E c \in FinCallers : MockFinConfirm(c)
    \/ \E c \in FinCallers : MockFinAdd(c)
    \/ \E c \in FinCallers : MockFinMissing(c)

SpecFinalize == InitFinalize /\ [][NextFinalize]_vars

\* the calls of finalize_payment that have not returned
InFlight == {fin[c].payment_id : c \in {d \in FinCallers : fin[d].pc = "invoice"}}

\* the sum of the amounts of the Confirmed payments of invoice i whose call
\* has returned
SettledSum(i) ==
    SumAmounts(payments, {p \in 1..Len(payments) :
        /\ payments[p].invoice_id = i
        /\ payments[p].status = "Confirmed"
        /\ p \notin InFlight})

\* C22: atomic finalization.  Once the calls of finalize_payment have
\* returned, with success or with an error, paid_raw of an invoice is the
\* sum of the amounts of its Confirmed payments: no update is lost and no
\* payment is left Confirmed without its amount in paid_raw; and when both
\* calls succeeded paid_raw is the sum of both amounts and, if the sum
\* reaches amount_raw, one of them returned true.
C22_AtomicFinalize ==
    \A i \in 1..Len(invoices) :
        /\ InFlight = {} =>
               (invoices[i].status = "Deleted" \/ invoices[i].paid_raw = SettledSum(i))
        /\ InFlight = {} => SettledSum(i) <= invoices[i].paid_raw
        /\ (\A c \in FinCallers : fin[c].result \in {"true", "false"}) =>
               /\ invoices[i].paid_raw = SumAmounts(payments, 1..Len(payments))
               /\ invoices[i].paid_raw >= invoices[i].amount_raw =>
                      \E c \in FinCallers : fin[c].result = "true"

(***************************************************************************)
(* SpecBackends: one sequence of calls applied to a relational backend     *)
(* (invoices, payments, webhooks) and to a MockDatabase (mock), each from  *)
(* its empty state.  A row's id is its position in the order of insertion. *)
(***************************************************************************)
\* what a call returned: Ok (with its value), Err, or a panic
Ret(tag, val) == [tag |-> tag, val |-> val]

MockEmpty == [invoices |-> <<>>, payments |-> <<>>, webhooks |-> <<>>]

InitBackends ==
    /\ base = PersistEvery - 1
    /\ PipelineInit(base)
    /\ required_confirmations = 0
    /\ block_lag = 0
    /\ cre = <<CreIdle>>
    /\ slot_busy = Err
    /\ slot_result = None
    /\ slot_called = FALSE
    /\ att_keys = <<>>
    /\ rx_open = TRUE
    /\ fin = <<>>
    /\ disp = <<DispIdle>>
    /\ backend = "postgres"
    /\ payers = PartsPayers
    /\ mock = MockEmpty
    /\ reqs = <<>>
    /\ logq = <<>>
    /\ sup = <<>>
    /\ lk = <<>>
    /\ ret = <<Ret("ok", <<>>), Ret("ok", <<>>), <<"none", 0>>>>

\* add_invoice(&invoice)
BkAddInvoice ==
    /\ Len(invoices) < 1
    /\ \E webhook_url \in BOOLEAN :
           LET invoice == [address_index |-> Len(invoices),
                           address |-> derive_address(Len(invoices)),
                           token |-> NativeSymbol, amount_raw |-> 2, paid_raw |-> 0,
                           status |-> "Pending", webhook_url |-> webhook_url]
           IN  /\ invoices' = add_invoice(invoices, invoice)
               /\ mock' = [mock EXCEPT !.invoices = add_invoice(@, invoice)]
    /\ ret' = <<Ret("ok", <<>>), Ret("ok", <<>>), <<"add_invoice", Len(invoices) + 1>>>>
    /\ UNCHANGED <<payments, webhooks, lpb_db, required_confirmations, block_lag,
                   proc_vars, env_vars, hist_vars, pure_vars, hook_vars, cfg_vars,
                   rx_open, fin, reqs, logq, sup, lk>>

\* add_payment_attempt(invoice_id, .., tx_hash, amount_raw, block_number, ..)
BkAddPaymentAttempt ==
    /\ \E invoice_id \in 1..Len(invoices), n \in PartsPayers, b \in 1..MaxTip :
           /\ payments' = add_payment_attempt(payments, invoice_id, Transfer(n).to,
                              Transfer(n).tx_hash, Transfer(n).amount_raw, base + b,
                              Transfer(n).log_index)
           /\ mock' = [mock EXCEPT !.payments =
                          mock_add_payment_attempt(@, invoice_id, Transfer(n).to,
                              Transfer(n).tx_hash, Transfer(n).amount_raw, base + b)]
           /\ ret' = <<Ret("ok", <<>>), Ret("ok", <<>>), <<"add_payment_attempt", invoice_id>>>>
    /\ UNCHANGED <<invoices, webhooks, lpb_db, required_confirmations, block_lag,
                   proc_vars, env_vars, hist_vars, pure_vars, hook_vars, cfg_vars,
                   rx_open, fin, reqs, logq, sup, lk>>

\* get_confirming_payments()
BkGetConfirming ==
    /\ ret' = <<Ret("ok", get_confirming_payments(payments)),
                Ret("ok", get_confirming_payments(mock.payments)),
                <<"get_confirming_payments", 0>>>>
    /\ UNCHANGED <<store_vars, proc_vars, env_vars, hist_vars, pure_vars, hook_vars,
                   cfg_vars, rx_open, fin, mock, reqs, logq, sup, lk>>

\* update_payment_block(&id, block_num), id the id of a payment of both
\* backends.  MockDatabase: self.payments.get_mut(payment_id).unwrap() on a
\* map keyed by invoice_id, where no key is a payment's id: the call panics
BkUpdatePaymentBlock ==
    /\ \E id \in 1..Len(payments), b \in 1..MaxTip :
           /\ id <= Len(mock.payments)
           /\ payments' = update_payment_block(payments, id, base + b)
           /\ ret' = <<Ret("ok", <<>>), Ret("panic", <<>>), <<"update_payment_block", id>>>>
    /\ UNCHANGED <<invoices, webhooks, lpb_db, required_confirmations, block_lag,
                   proc_vars, env_vars, hist_vars, pure_vars, hook_vars, cfg_vars,
                   rx_open, fin, mock, reqs, logq, sup, lk>>

\* finalize_payment(&id), id the id of a payment of both backends
BkFinalize ==
    /\ \E id \in 1..Len(payments) :
           /\ id <= Len(mock.payments)
           /\ payments[id].status = "Confirming"
           /\ payments' = finalize_payment_payments(payments, id)
           /\ invoices' = finalize_payment_invoices(payments, invoices, id)
           /\ mock' = [mock EXCEPT
                  !.payments = [@ EXCEPT ![id].status = "Confirmed"],
                  !.invoices = finalize_payment_invoices(mock.payments, @, id)]
           /\ ret' = <<Ret("ok", <<finalize_payment_result(payments, invoices, id)>>),
                       Ret("ok", <<finalize_payment_result(mock.payments, mock.invoices, id)>>),
                       <<"finalize_payment", id>>>>
    /\ UNCHANGED <<webhooks, lpb_db, required_confirmations, block_lag,
                   proc_vars, env_vars, hist_vars, pure_vars, hook_vars, cfg_vars,
                   rx_open, fin, reqs, logq, sup, lk>>

\* Postgres::add_webhook_job: the url is read with
\*   let url_opt: Option<String> = sqlx::query_scalar("SELECT webhook_url ...")
\*       .fetch_optional(&self.pool).await?;
\* the scalar is decoded as String: a row whose webhook_url is NULL fails to
\* decode and the call returns Err; no row gives "Invoice {} not found"
pg_add_webhook_job_result(invs, invoice_id) ==
    IF invoice_id \in 1..Len(invs) /\ invs[invoice_id].webhook_url THEN "ok" ELSE "err"

\* MockDatabase::add_webhook_job: Err when the invoice is not in the map;
\* if invoice.webhook_url.is_none() { return Ok(()) }
mock_add_webhook_job_result(invs, invoice_id) ==
    IF invoice_id \in 1..Len(invs) THEN "ok" ELSE "err"

\* add_webhook_job(&invoice_id, &event)
BkAddWebhookJob ==
    /\ Len(webhooks) < MaxJobs
    /\ \E invoice_id \in 1..Len(invoices) :
           LET event == [event_type |-> "TxDetected", tx_hash |-> 1,
                         confirmations |-> None]
           IN  /\ webhooks' = add_webhook_job(webhooks, invoices, invoice_id, event)
               /\ mock' = [mock EXCEPT !.webhooks =
                              add_webhook_job(@, mock.invoices, invoice_id, event)]
               /\ ret' = <<Ret(pg_add_webhook_job_result(invoices, invoice_id), <<>>),
                           Ret(mock_add_webhook_job_result(mock.invoices, invoice_id), <<>>),
                           <<"add_webhook_job", invoice_id>>>>
    /\ UNCHANGED <<invoices, payments, lpb_db, required_confirmations, block_lag,
                   proc_vars, env_vars, hist_vars, pure_vars, hook_vars, cfg_vars,
                   rx_open, fin, reqs, logq, sup, lk>>

\* select_webhooks_job(), no other call running
BkSelectWebhooks ==
    /\ \E ids \in lease_choices(webhooks, now) :
           /\ ids = due_jobs(mock.webhooks, now)
           /\ webhooks' = mark_processing(webhooks, ids)
           /\ mock' = [mock EXCEPT !.webhooks = mark_processing(@, ids)]
           /\ ret' = <<Ret("ok", InOrder(ids)), Ret("ok", InOrder(ids)), <<"select_webhooks_job", 0>>>>
    /\ UNCHANGED <<invoices, payments, lpb_db, required_confirmations, block_lag,
                   proc_vars, env_vars, hist_vars, pure_vars, hook_vars, cfg_vars,
                   rx_open, fin, reqs, logq, sup, lk>>

NextBackends ==
    \/ BkAddInvoice
    \/ BkAddPaymentAttempt
    \/ BkGetConfirming
    \/ BkUpdatePaymentBlock
    \/ BkFinalize
    \/ BkAddWebhookJob
    \/ BkSelectWebhooks

SpecBackends == InitBackends /\ [][NextBackends]_vars

\* C23: backend equivalence.  After every sequence of calls the two
\* backends hold the same invoices, payments and webhook jobs, and the last
\* call returned the same to both.
C23_BackendEquivalence ==
    /\ mock.invoices = invoices
    /\ mock.payments = payments
    /\ mock.webhooks = webhooks
    /\ ret[1] = ret[2]

\* C24: add_webhook_job for an existing invoice.  Without a webhook_url the
\* call adds no job and returns success; with one it adds exactly one job,
\* Pending with attempts = 0 and next_retry <= now, which the next
\* select_webhooks_job can lease.
C24_AddWebhookJob ==
    [][ret'[3][1] = "add_webhook_job" =>
           LET id == ret'[3][2]
               h == Len(webhooks')
           IN  IF invoices[id].webhook_url
               THEN /\ ret'[1].tag = "ok" /\ ret'[2].tag = "ok"
                    /\ h = Len(webhooks) + 1
                    /\ SubSeq(webhooks', 1, Len(webhooks)) = webhooks
                    /\ webhooks'[h].status = "Pending"
                    /\ webhooks'[h].attempts = 0
                    /\ webhooks'[h].next_retry <= now'
                    /\ \E ids \in lease_choices(webhooks', now') : h \in ids
                    /\ mock'.webhooks = webhooks'
               ELSE /\ ret'[1].tag = "ok" /\ ret'[2].tag = "ok"
                    /\ webhooks' = webhooks
                    /\ mock'.webhooks = mock.webhooks]_vars

\* the TxDetected jobs of invoice i for transaction tx_hash
DetectedJobs(i, tx_hash) ==
    {j \in JobsOf(i, "TxDetected") : webhooks[j].tx_hash = tx_hash}

\* C25: TxDetected only on first sight.  A TxDetected job is enqueued only
\* when add_payment_attempt inserted a new payment: no invoice has two
\* TxDetected jobs for one transaction.
C25_DetectedOnce ==
    \A i \in 1..Len(invoices) :
        \A p \in PaymentsOf(i) :
            Cardinality(DetectedJobs(i, payments[p].tx_hash)) <= 1

(***************************************************************************)
(* SpecSign: the deliveries of the webhook dispatcher.  An invoice has a   *)
(* webhook_url and an optional webhook_secret; process_webhook signs and   *)
(* posts each leased job and the receiver answers with a status.  HMAC and *)
(* the JSON serialisation are uninterpreted.                               *)
(***************************************************************************)
Secrets == {"s1", "s2"}

InitSign ==
    /\ base = PersistEvery - 1
    /\ PipelineInit(base)
    /\ required_confirmations = 0
    /\ block_lag = 0
    /\ cre = <<CreIdle>>
    /\ slot_busy = Err
    /\ slot_result = None
    /\ slot_called = FALSE
    /\ att_keys = <<>>
    /\ rx_open = TRUE
    /\ fin = <<>>
    /\ mock = <<>>
    /\ ret = <<>>
    /\ reqs = <<>>
    /\ logq = <<>>
    /\ sup = <<>>
    /\ lk = <<>>
    /\ disp = <<DispIdle>>
    /\ backend = "mock"
    /\ payers = PartsPayers

\* add_invoice of an invoice with a webhook_url
SignAddInvoice ==
    /\ invoices = <<>>
    /\ \E webhook_secret \in {None} \cup {Some(x) : x \in Secrets} :
           invoices' = add_invoice(invoices,
               [address_index |-> 0, address |-> derive_address(0),
                token |-> NativeSymbol, amount_raw |-> 2, paid_raw |-> 0,
                status |-> "Pending", webhook_url |-> TRUE,
                webhook_secret |-> webhook_secret])
    /\ UNCHANGED <<payments, webhooks, lpb_db, required_confirmations, block_lag,
                   proc_vars, env_vars, hist_vars, pure_vars, hook_vars, cfg_vars, aux_vars>>

\* MockDatabase::select_webhooks_job:
\*   let secret = self.invoices.get(&job.invoice_id.to_string())
\*       .map(|inv| inv.webhook_secret.clone()).flatten()
\*       .unwrap_or_else(|| "default_secret".to_owned());
secret_key(invs, invoice_id) ==
    IF invoice_id \in 1..Len(invs) /\ invs[invoice_id].webhook_secret # None
    THEN invs[invoice_id].webhook_secret[1]
    ELSE "default_secret"

\* select_webhooks_job: the due jobs become Processing and are returned with
\* their secret; one task is spawned for each
SignSelect ==
    /\ LET ids == due_jobs(webhooks, now)
       IN  /\ ids # {}
           /\ webhooks' = mark_processing(webhooks, ids)
           /\ tasks' = tasks \cup
                  {[id |-> j, secret_key |-> secret_key(invoices, webhooks[j].invoice_id),
                    payload |-> [event_type |-> webhooks[j].event_type,
                                 tx_hash |-> webhooks[j].tx_hash],
                    attempts |-> webhooks[j].attempts,
                    max_retries |-> webhooks[j].max_retries] : j \in ids}
    /\ UNCHANGED <<invoices, payments, lpb_db, required_confirmations, block_lag,
                   proc_vars, env_vars, hist_vars, pure_vars, now, disp, posts,
                   cfg_vars, aux_vars>>

\* serde_json::to_string(&job.payload.0)
to_string(payload) == <<"json", payload.event_type, payload.tx_hash>>

\* generate_signature: signed_body = format!("{}.{}", timestamp, body);
\* hex::encode(HMAC-SHA256(secret, signed_body))
generate_signature(timestamp, secret, body) ==
    <<"hex", <<"hmac_sha256", secret, <<timestamp, ".", body>>>>>>

\* process_webhook(db, client, job): the request is built and sent; a 2xx
\* answer sets the job to Sent, any other answer or a network error goes to
\* handle_retry
ProcessWebhook(t) ==
    /\ t \in tasks
    /\ \E is_success \in BOOLEAN :
           LET timestamp == now
               body_string == to_string(t.payload)
               signature == generate_signature(timestamp, t.secret_key, body_string)
           IN  /\ reqs' = Append(reqs, [job |-> t.id,
                                        x_webhook_timestamp |-> timestamp,
                                        x_webhook_signature |-> signature,
                                        body |-> body_string,
                                        is_success |-> is_success])
               /\ webhooks' = IF is_success
                              THEN set_webhook_status(webhooks, t.id, "Sent")
                              ELSE handle_retry(webhooks, t)
    /\ tasks' = tasks \ {t}
    /\ UNCHANGED <<invoices, payments, lpb_db, required_confirmations, block_lag,
                   proc_vars, env_vars, hist_vars, pure_vars, now, disp, posts,
                   cfg_vars, rx_open, fin, mock, ret, logq, sup, lk>>

NextSign ==
    \/ SignAddInvoice
    \/ EnqueueJob
    \/ SignSelect
    \/ \E t \in tasks : ProcessWebhook(t)
    \/ Elapse

SpecSign == InitSign /\ [][NextSign]_vars

\* C26: webhook signature.  Every request sent carries
\* X-Webhook-Signature = hex(HMAC_SHA256(secret, timestamp + "." + body)) with
\* the timestamp of its X-Webhook-Timestamp header, the body it was sent with
\* and the webhook_secret of the job's invoice; a job whose delivery was
\* answered with a 2xx status is Sent.
C26_Signature ==
    \A k \in 1..Len(reqs) :
        LET invoice == invoices[webhooks[reqs[k].job].invoice_id]
        IN  /\ invoice.webhook_secret # None
            /\ reqs[k].x_webhook_signature =
                   generate_signature(reqs[k].x_webhook_timestamp,
                                      invoice.webhook_secret[1], reqs[k].body)
            /\ reqs[k].is_success => webhooks[reqs[k].job].status = "Sent"

(***************************************************************************)
(* SpecPartial: the ingestor of SpecIngest while the API calls             *)
(* update_chain_partial with a last_processed_block.                       *)
(***************************************************************************)
\* update_chain_partial(chain_name, chain_update) with
\* chain_update.last_processed_block = Some(block):
\*   UPDATE chains SET last_processed_block = COALESCE($2, last_processed_block)
\*   chain_config.last_processed_block = last_processed_block
UpdateChainPartial ==
    /\ \E block \in base..(base + MaxTip) :
           /\ lpb_db' = block
           /\ lpb' = block
    /\ UNCHANGED <<invoices, payments, webhooks, required_confirmations, block_lag,
                   watch_addresses, chan, active, ing, wat, conf, jan, cre,
                   env_vars, hist_vars, pure_vars, hook_vars, cfg_vars, aux_vars>>

NextPartial ==
    \/ MineBlock
    \/ WatchAdd
    \/ IngRead
    \/ IngTip0Ok
    \/ IngPollOk
    \/ IngFetchOk
    \/ IngNative
    \/ IngLogsOk
    \/ IngPersistOk
    \/ IngPersistErr
    \/ WatcherDrop
    \/ UpdateChainPartial

SpecPartial == InitIngest /\ [][NextPartial]_vars

\* C27: last_processed_block never decreases, in the cache and in the
\* store, under any interleaving of the ingestor's advance, update_chain_block
\* and update_chain_partial.
C27_BlockMonotone ==
    [][lpb' >= lpb /\ lpb_db' >= lpb_db]_vars

\* the callers of finalize_payment whose call returns Ok in this step
Returning(c) ==
    /\ fin[c].result = "none"
    /\ fin'[c].result \in {"true", "false"}

HexDigits == {"a", "A", "f", "F"}

\* the spellings of the addresses of AddrLen digits
Spellings == {s \in SeqsUpTo(HexDigits, AddrLen) : Len(s) = AddrLen}

to_lowercase(s) ==
    [k \in 1..Len(s) |-> CASE s[k] = "A" -> "a" [] s[k] = "F" -> "f" [] OTHER -> s[k]]

InitAddress ==
    /\ base = PersistEvery - 1
    /\ PipelineInit(base)
    /\ required_confirmations = 0
    /\ block_lag = 0
    /\ cre = <<CreIdle>>
    /\ slot_busy = Err
    /\ slot_result = None
    /\ slot_called = FALSE
    /\ att_keys = <<>>
    /\ rx_open = TRUE
    /\ fin = <<>>
    /\ mock = <<>>
    /\ reqs = <<>>
    /\ logq = <<>>
    /\ sup = <<>>
    /\ lk = <<>>
    /\ ret = <<Ret("ok", <<>>), Ret("ok", <<>>), <<"none", <<>>>>>>
    /\ disp = <<DispIdle>>
    /\ backend \in {"postgres", "mock"}
    /\ payers = PartsPayers

\* add_invoice of a Pending invoice whose address is stored as it is given
AddrAddInvoice ==
    /\ invoices = <<>>
    /\ \E address \in Spellings :
           invoices' = add_invoice(invoices,
               [address_index |-> 0, address |-> address,
                token |-> NativeSymbol, amount_raw |-> 2, paid_raw |-> 0,
                status |-> "Pending", webhook_url |-> TRUE])
    /\ UNCHANGED <<payments, webhooks, lpb_db, required_confirmations, block_lag,
                   proc_vars, env_vars, hist_vars, pure_vars, hook_vars, cfg_vars, aux_vars>>

\* get_pending_invoice_by_address(chain_name, address), called by the
\* watcher with event.to:
\*   Postgres: ... WHERE network = $1 AND address = $2 AND status = 'Pending'
\*   MockDatabase: inv.network == chain_name && inv.address == address && ...
AddrLookup ==
    /\ \E address \in Spellings :
           LET found == InOrder(get_pending_invoice_by_address(invoices, address))
           IN  ret' = <<Ret("ok", found), Ret("ok", found),
                        <<"get_pending_invoice_by_address", address>>>>
    /\ UNCHANGED <<store_vars, proc_vars, env_vars, hist_vars, pure_vars, hook_vars,
                   cfg_vars, rx_open, fin, mock, reqs, logq, sup, lk>>

NextAddress == AddrAddInvoice \/ AddrLookup

SpecAddress == InitAddress /\ [][NextAddress]_vars

\* C29: get_pending_invoice_by_address matches addresses up to letter case:
\* a lookup finds the Pending invoice whose address equals the one asked for
\* when both are written in lowercase.
C29_CaseInsensitive ==
    ret[3][1] = "get_pending_invoice_by_address" =>
        \A i \in 1..Len(invoices) :
            (invoices[i].status = "Pending"
                 /\ to_lowercase(invoices[i].address) = to_lowercase(ret[3][2]))
            => ret[1].val = <<i>>

\* C30: ingestor start.  When last_processed_block is 0 the ingestor asks the
\* node for its tip and retries the request until it succeeds: no run of RPC
\* failures, at the start or later, ends the ingestor task.
C30_RetriesForever == ing.pc # "dead"

(***************************************************************************)
(* SpecLogs: process_logs against a node whose log index lags.  A block    *)
(* may hold a transfer call to the token contract that reverted (a call    *)
(* without a log); a get_logs that succeeds returns the logs of the block  *)
(* or, while the index lags, nothing.                                      *)
(***************************************************************************)
LogIdle(revert) == [attempt |-> 0, revert |-> revert]

InitLogs ==
    /\ base = PersistEvery - 1
    /\ PipelineInit(base)
    /\ required_confirmations = 0
    /\ block_lag = 0
    /\ cre = <<CreIdle>>
    /\ slot_busy = Err
    /\ slot_result = None
    /\ slot_called = FALSE
    /\ att_keys = <<>>
    /\ rx_open = TRUE
    /\ fin = <<>>
    /\ mock = <<>>
    /\ ret = <<>>
    /\ reqs = <<>>
    /\ disp = <<DispIdle>>
    /\ backend = "postgres"
    /\ payers = {n \in TransferIds : Transfer(n).log_index # None}
    /\ \E revert \in SUBSET ((base + 1)..(base + MaxTip)) : logq = LogIdle(revert)
    /\ sup = <<>>
    /\ lk = <<>>

\* suspicious_block: a transaction of the block goes to a known token
\* contract with an input that starts with 0xa9059cbb or 0x23b872dd
suspicious_block(b) == LogsOf(b) # {} \/ b \in logq.revert

\* a retry for every empty answer below the limit, suspicious or not
retry_any(suspicious, attempt) == attempt < MaxLogRetries

\*   if suspicious_block && attempt < max_retries { attempt += 1; ... continue; }
retry(suspicious, attempt) == suspicious /\ attempt < MaxLogRetries

\* get_logs => Ok(l), l not empty: break l; the matching logs are sent
LogsFound ==
    /\ ing.pc = "logs"
    /\ LogsOf(ing.block_num) # {}
    /\ Send(process_logs(LogsOf(ing.block_num), ing.address_set), ing.block_num)
    /\ AfterBlock(ing.block_num)
    /\ logq' = [logq EXCEPT !.attempt = 0]
    /\ rpc_failed' = FALSE
    /\ UNCHANGED <<store_vars, watch_addresses, active, wat, conf, jan, cre,
                   env_vars, start_block, credits, pure_vars,
                   hook_vars, cfg_vars, rx_open, fin, mock, ret, reqs, sup, lk>>

\* get_logs => Ok(l), l empty, and a retry is due: sleep 1 s, continue
LogsRetry ==
    /\ ing.pc = "logs"
    /\ retry(suspicious_block(ing.block_num), logq.attempt)
    /\ logq' = [logq EXCEPT !.attempt = @ + 1]
    /\ rpc_failed' = FALSE
    /\ UNCHANGED <<store_vars, proc_vars, env_vars, start_block, completed, matched,
                   emitted, credits, pure_vars, hook_vars, cfg_vars,
                   rx_open, fin, mock, ret, reqs, sup, lk>>

\* get_logs => Ok(l), l empty, and no retry is due: break l; nothing is sent
LogsEmpty ==
    /\ ing.pc = "logs"
    /\ ~retry(suspicious_block(ing.block_num), logq.attempt)
    /\ AfterBlock(ing.block_num)
    /\ logq' = [logq EXCEPT !.attempt = 0]
    /\ rpc_failed' = FALSE
    /\ UNCHANGED <<store_vars, watch_addresses, chan, active, wat, conf, jan, cre,
                   env_vars, start_block, emitted, credits, pure_vars,
                   hook_vars, cfg_vars, rx_open, fin, mock, ret, reqs, sup, lk>>

NextLogs ==
    \/ MineBlock
    \/ WatchAdd
    \/ IngRead
    \/ IngPollOk
    \/ IngFetchOk
    \/ IngNative
    \/ LogsFound
    \/ LogsRetry
    \/ LogsEmpty
    \/ IngLogsErr
    \/ IngPersistOk
    \/ WatcherDrop

SpecLogs == InitLogs /\ [][NextLogs]_vars

\* the block that process_logs works on is completed in this step
LogsDone == ing.pc = "logs" /\ completed' # completed

\* C31: missing-logs retry.  An empty answer for a block with a transfer
\* call to a token contract is retried at most 15 times, then the block is
\* completed with no token events; a log that shows up is emitted; without
\* such a call an empty answer is accepted at once; once the limit is
\* reached every answer of the node completes the block.
C31_MissingLogsRetry ==
    [][/\ logq'.attempt <= MaxLogRetries
       /\ (LogsDone /\ emitted' = emitted /\ suspicious_block(ing.block_num)
               /\ process_logs(LogsOf(ing.block_num), ing.address_set) # {})
            => logq.attempt = MaxLogRetries
       /\ (LogsDone /\ logq.attempt > 0 /\ chan' # chan)
            => emitted' = emitted \cup {<<ing.block_num, n>> :
                   n \in process_logs(LogsOf(ing.block_num), ing.address_set)}
       /\ (ing.pc = "logs" /\ ~suspicious_block(ing.block_num))
            => logq'.attempt = 0
       /\ (ing.pc = "logs" /\ logq.attempt = MaxLogRetries
               /\ (ing' # ing \/ logq' # logq))
            => completed' # completed
      ]_vars

\* a log came with a retry and was sent; before that, a block with a
\* reverted call was given up after the last retry
C31_Witness ==
    /\ \E b \in logq.revert : b \in completed
    /\ emitted # {}
    /\ logq.attempt = 0
    /\ ing.pc = "poll"

\* C32: persistence cadence.  After a block the ingestor calls
\* update_chain_block exactly when the block's number is a multiple of 10 or
\* the block is the target, and a call that succeeds stores that block, so a
\* batch without storage errors ends with the target persisted; the
\* persisted last_processed_block never exceeds the cached one and lags it
\* by fewer than 10 blocks.
C32_PersistCadence ==
    [][/\ (ing.pc = "logs" /\ completed' # completed) =>
              (ing'.pc = "persist" <=>
                   (ing.block_num % PersistEvery = 0 \/ ing.block_num = ing.current_block_num))
       /\ (ing.pc = "persist" /\ lpb_db' # lpb_db) => lpb_db' = ing.last_block_num
       /\ (ing.pc = "persist" /\ ing'.pc = "poll" /\ lpb_db' # lpb_db) =>
              lpb_db' = ing.current_block_num
       /\ lpb_db' <= lpb'
       /\ lpb' - lpb_db' < PersistEvery
      ]_vars

\* C33: watch-set snapshot.  For each block the ingestor reads the watch-set
\* once, when it starts on the block, and filters the native transfers and
\* the token logs of the block with that snapshot: an address added or
\* removed while the block is being processed, the retries of its fetch
\* included, changes nothing in the block's events.
C33_SnapshotAtStart ==
    [][/\ (ing.pc = "fetch" /\ ing'.pc = "native") => ing'.address_set = ing.at_start
       /\ (ing.pc \in {"native", "logs"} /\ ing'.pc \in {"native", "logs"}) =>
              ing'.address_set = ing.address_set
       /\ (ing.pc \in {"native", "logs"} /\ emitted' # emitted) =>
              \A e \in emitted' \ emitted :
                  e[1] = ing.block_num /\ Transfer(e[2]).to \in ing.at_start
      ]_vars

\* the watcher takes the head of the channel in this step
WatTakes == wat.pc = "idle" /\ chan # <<>> /\ chan' = Tail(chan)

\* C34: watcher effects.  For each Payment Event the watcher calls
\* add_payment_attempt at most once and enqueues at most one TxDetected job;
\* it never changes an invoice; an event without a Pending invoice at its
\* address, or of another token than the invoice's, leaves no payment and no
\* webhook job.
C34_WatcherEffects ==
    [][crashes' = crashes =>
         /\ (WatTakes \/ wat' # wat) => invoices' = invoices
         /\ WatTakes =>
              /\ payments' = payments
              /\ webhooks' = webhooks
              /\ (\A i \in 1..Len(invoices) :
                      ~(/\ invoices[i].status = "Pending"
                        /\ invoices[i].address = Head(chan).to
                        /\ invoices[i].token = Head(chan).token))
                 => wat' = wat
         /\ (wat.pc = "attempt" /\ wat' # wat) =>
              /\ webhooks' = webhooks
              /\ Len(payments') <= Len(payments) + 1
              /\ wat'.pc \in {"webhook", "idle"}
         /\ (wat.pc = "webhook" /\ wat' # wat) =>
              /\ payments' = payments
              /\ Len(webhooks') <= Len(webhooks) + 1
              /\ wat'.pc = "idle"
              /\ \A j \in (Len(webhooks) + 1)..Len(webhooks') :
                     /\ webhooks'[j].event_type = "TxDetected"
                     /\ webhooks'[j].invoice_id = wat.invoice_id
      ]_vars

\* the watcher has recorded a payment and enqueued TxDetected for an invoice
\* that it left Pending and unpaid
C34_Witness ==
    /\ wat.pc = "idle"
    /\ \E i \in 1..Len(invoices) :
           /\ invoices[i].status = "Pending"
           /\ invoices[i].paid_raw = 0
           /\ PaymentsOf(i) # {}
           /\ JobsOf(i, "TxDetected") # {}

(***************************************************************************)
(* SpecSupervisor: AppState::start_listening and AppState::stop_listening  *)
(* for one chain, called concurrently.  sup.handle is the chain's entry of *)
(* active_chains (None, or Some(task)), sup.running the listener tasks     *)
(* that run, sup.call[c] the position of caller c in start_listening,      *)
(* sup.result[c] the result of its last call, sup.stopped the result of    *)
(* the last stop_listening.                                                *)
(***************************************************************************)
Starters == 1..MaxStarters

InitSupervisor ==
    /\ base = PersistEvery - 1
    /\ PipelineInit(base)
    /\ required_confirmations = 0
    /\ block_lag = 0
    /\ cre = <<CreIdle>>
    /\ slot_busy = Err
    /\ slot_result = None
    /\ slot_called = FALSE
    /\ att_keys = <<>>
    /\ rx_open = TRUE
    /\ fin = <<>>
    /\ mock = <<>>
    /\ ret = <<>>
    /\ reqs = <<>>
    /\ logq = <<>>
    /\ disp = <<DispIdle>>
    /\ backend = "postgres"
    /\ payers = TransferIds
    /\ sup = [handle |-> None, running |-> {}, spawned |-> 0,
              call |-> [c \in Starters |-> "idle"],
              result |-> [c \in Starters |-> "none"], stopped |-> "none"]
    /\ lk = <<>>

\* start_listening: if self.active_chains.read().await.contains_key(chain)
\*   { bail!("Chain {} is already listening") }; the read lock is released
StartCheck(c) ==
    /\ sup.call[c] = "idle"
    /\ sup.spawned < MaxTasks
    /\ sup' = IF sup.handle # None
              THEN [sup EXCEPT !.result[c] = "err"]
              ELSE [sup EXCEPT !.call[c] = "spawn", !.result[c] = "none"]
    /\ UNCHANGED <<store_vars, proc_vars, env_vars, hist_vars, pure_vars, hook_vars,
                   cfg_vars, rx_open, fin, mock, ret, reqs, logq, lk>>

\* start_listening, after db.get_chain(chain).await: tokio::spawn(listen),
\* then self.active_chains.write().await.insert(chain_name, listener); the
\* handle that the entry held is dropped, which leaves its task running
StartSpawn(c) ==
    /\ sup.call[c] = "spawn"
    /\ LET task == sup.spawned + 1
       IN  sup' = [sup EXCEPT !.handle = Some(task),
                              !.running = @ \cup {task},
                              !.spawned = task,
                              !.call[c] = "idle",
                              !.result[c] = "ok"]
    /\ UNCHANGED <<store_vars, proc_vars, env_vars, hist_vars, pure_vars, hook_vars,
                   cfg_vars, rx_open, fin, mock, ret, reqs, logq, lk>>

\* stop_listening, under the write lock: active_chains.remove(chain_name) =>
\* Some(handle): handle.abort(); None: bail!("Chain {} is not listening")
StopCall ==
    /\ sup' = IF sup.handle # None
              THEN [sup EXCEPT !.handle = None, !.running = @ \ {sup.handle[1]},
                               !.stopped = "ok"]
              ELSE [sup EXCEPT !.stopped = "err"]
    /\ UNCHANGED <<store_vars, proc_vars, env_vars, hist_vars, pure_vars, hook_vars,
                   cfg_vars, rx_open, fin, mock, ret, reqs, logq, lk>>

NextSupervisor ==
    \/ \E c \in Starters : StartCheck(c)
    \/ \E c \in Starters : StartSpawn(c)
    \/ StopCall

SpecSupervisor == InitSupervisor /\ [][NextSupervisor]_vars

\* C35: one ingestor per chain.  At most one listener task runs for the
\* chain and every running task has its handle in the task map;
\* start_listening fails when the chain has an entry, also when two calls run
\* concurrently.
C35_OneIngestor ==
    /\ Cardinality(sup.running) <= 1
    /\ \A task \in sup.running : sup.handle = Some(task)

(***************************************************************************)
(* SpecDispatch: the dispatcher of SpecWebhook with the error returns of   *)
(* process_webhook before the POST.                                        *)
(***************************************************************************)
\* process_webhook: serde_json::to_string(&job.payload.0) => Err, or
\* generate_signature(&now, &job.secret_key, &body_string) => Err: the ?
\* returns the error to the spawned task of the dispatcher, which logs
\* "Failed to process webhook"; no store call is made
TaskPrepareErr(t) ==
    /\ t \in tasks
    /\ t.pc = "post"
    /\ tasks' = tasks \ {t}
    /\ UNCHANGED <<store_vars, proc_vars, env_vars, hist_vars, pure_vars,
                   now, disp, posts, cfg_vars, aux_vars>>

NextDispatch ==
    \/ CreateGetSlot(1)
    \/ CreateAddInvoice(1)
    \/ CreateAddWatch(1)
    \/ EnqueueJob
    \/ PgSelect(1)
    \/ \E t \in tasks : TaskPrepareErr(t)
    \/ \E t \in tasks : TaskPostOk(t)
    \/ \E t \in tasks : TaskPostFail(t)
    \/ \E t \in tasks : TaskSetSent(t)
    \/ \E t \in tasks : TaskRetry(t)
    \/ \E t \in tasks : TaskStoreErr(t)
    \/ Elapse
    \/ CrashRestart

SpecDispatch == InitWebhook /\ [][NextDispatch]_vars

\* C36: dispatcher error handling.  A task that ends before its POST (the
\* signature or the serialization failed) leaves its job Failed, not
\* Processing; a task whose POST failed leaves its job Pending with a later
\* next_retry, or Failed at the retry limit (or unchanged when the store call
\* of the retry path failed).
C36_DispatcherErrors ==
    [][\A t \in tasks :
           (t \notin tasks' /\ crashes' = crashes) =>
               /\ t.pc = "post" => webhooks'[t.id].status = "Failed"
               /\ t.pc = "retry" =>
                      \/ /\ t.attempts + 1 < t.max_retries
                         /\ webhooks'[t.id].status = "Pending"
                         /\ webhooks'[t.id].next_retry > now
                      \/ /\ t.attempts + 1 >= t.max_retries
                         /\ webhooks'[t.id].status = "Failed"
                      \/ webhooks' = webhooks
      ]_vars

(***************************************************************************)
(* SpecLocks: the std::sync::RwLock guards of the in-memory cache.  The    *)
(* locks are the chain map (chains_cache), a chain's config, its watch-set *)
(* (watch_addresses), its token-set (tokens) and the token-decimals map    *)
(* (token_decimals).  lk.held[th] is the sequence of guards task th holds, *)
(* lk.prog[th] the lock steps of its current operation that are to come.   *)
(***************************************************************************)
LockTasks == {"ingestor", "confirmator", "janitor", "store"}

Locks == {"chains_cache", "config", "watch_addresses", "tokens", "token_decimals"}

\* the place of a lock in the order chain map, config, watch-set or
\* token-set, token-decimals map
LockRank(l) ==
    CASE l = "chains_cache" -> 1
      [] l = "config" -> 2
      [] l \in {"watch_addresses", "tokens"} -> 3
      [] l = "token_decimals" -> 4

Rd(l) == [op |-> "read", lock |-> l]
Wr(l) == [op |-> "write", lock |-> l]
Drop(l) == [op |-> "drop", lock |-> l]

\* listen: chain_config.read().watch_addresses.read() (the snapshot);
\* chain_config.write().last_processed_block = ...; process_logs:
\* chain_config.read(), guard.tokens.read()
IngestorLocks ==
    { <<Rd("config"), Rd("watch_addresses"), Drop("watch_addresses"), Drop("config")>>,
      <<Wr("config"), Drop("config")>>,
      <<Rd("config"), Rd("tokens"), Drop("tokens"), Drop("config")>> }

\* remove_watch_address, add_watch_address, remove_watch_addresses_bulk:
\* chains_cache.read(), config().read(), watch_addresses.write()
watch_address_locks ==
    <<Rd("chains_cache"), Rd("config"), Wr("watch_addresses"),
      Drop("watch_addresses"), Drop("config"), Drop("chains_cache")>>

\* confirmator: db.get_chain (chains_cache.read()), chain_config_lock.read(),
\* db.remove_watch_address
ConfirmatorLocks ==
    { <<Rd("chains_cache"), Drop("chains_cache")>>,
      <<Rd("config"), Drop("config")>>,
      watch_address_locks }

\* janitor: db.remove_watch_addresses_bulk
JanitorLocks == {watch_address_locks}

\* add_token, remove_token: chains_cache.read(), config().read(),
\* tokens.write(), all dropped at the end of the if let; then
\* token_decimals.write()
token_locks ==
    <<Rd("chains_cache"), Rd("config"), Wr("tokens"),
      Drop("tokens"), Drop("config"), Drop("chains_cache"),
      Wr("token_decimals"), Drop("token_decimals")>>

\* update_chain_partial: chains_cache.write(), config_lock.write()
update_chain_partial_locks ==
    <<Wr("chains_cache"), Wr("config"), Drop("config"), Drop("chains_cache")>>

\* get_token_decimals with the guard of _get_token_decimals_cached kept
\* while the chain map is read
get_token_decimals_held ==
    { <<Rd("token_decimals"), Drop("token_decimals")>>,
      <<Rd("token_decimals"),
        Rd("chains_cache"), Rd("config"), Drop("config"), Drop("chains_cache"),
        Drop("token_decimals"), Wr("token_decimals"), Drop("token_decimals")>> }

\* get_token_decimals: _get_token_decimals_cached (token_decimals.read(),
\* dropped on return); chains_cache.read(), lock.read(), then
\* _insert_token_decimals (token_decimals.write()) for the native symbol, or
\* c.tokens.read() and _insert_token_decimals for a token, or neither
get_token_decimals_locks ==
    { <<Rd("token_decimals"), Drop("token_decimals")>>,
      <<Rd("token_decimals"), Drop("token_decimals"),
        Rd("chains_cache"), Rd("config"),
        Wr("token_decimals"), Drop("token_decimals"),
        Drop("config"), Drop("chains_cache")>>,
      <<Rd("token_decimals"), Drop("token_decimals"),
        Rd("chains_cache"), Rd("config"), Rd("tokens"),
        Wr("token_decimals"), Drop("token_decimals"),
        Drop("tokens"), Drop("config"), Drop("chains_cache")>>,
      <<Rd("token_decimals"), Drop("token_decimals"),
        Rd("chains_cache"), Rd("config"), Rd("tokens"),
        Drop("tokens"), Drop("config"), Drop("chains_cache")>> }

\* the store operations called from the API
StoreLocks ==
    {watch_address_locks, token_locks, update_chain_partial_locks}
        \cup get_token_decimals_locks

LockPrograms(th) ==
    CASE th = "ingestor" -> IngestorLocks
      [] th = "confirmator" -> ConfirmatorLocks
      [] th = "janitor" -> JanitorLocks
      [] th = "store" -> StoreLocks

InitLocks ==
    /\ base = PersistEvery - 1
    /\ PipelineInit(base)
    /\ required_confirmations = 0
    /\ block_lag = 0
    /\ cre = <<CreIdle>>
    /\ slot_busy = Err
    /\ slot_result = None
    /\ slot_called = FALSE
    /\ att_keys = <<>>
    /\ rx_open = TRUE
    /\ fin = <<>>
    /\ mock = <<>>
    /\ ret = <<>>
    /\ reqs = <<>>
    /\ logq = <<>>
    /\ sup = <<>>
    /\ disp = <<DispIdle>>
    /\ backend = "postgres"
    /\ payers = TransferIds
    /\ lk = [held |-> [th \in LockTasks |-> <<>>], prog |-> [th \in LockTasks |-> <<>>]]

\* task u holds a guard of lock l (of mode write when writing is TRUE)
Holds(u, l, writing) ==
    \E k \in 1..Len(lk.held[u]) :
        /\ lk.held[u][k].lock = l
        /\ writing => lk.held[u][k].op = "write"

\* the next step of th is to take a guard
Wants(th) == lk.prog[th] # <<>> /\ Head(lk.prog[th]).op \in {"read", "write"}

\* RwLock: a write waits for every guard, a read for a write guard
LockFree(th) ==
    LET want == Head(lk.prog[th])
    IN  \A u \in LockTasks :
            /\ ~Holds(u, want.lock, TRUE)
            /\ want.op = "write" => ~Holds(u, want.lock, FALSE)

\* a task starts one of its operations
LockBegin(th) ==
    /\ lk.prog[th] = <<>>
    /\ \E p \in LockPrograms(th) : lk' = [lk EXCEPT !.prog[th] = p]
    /\ UNCHANGED <<store_vars, proc_vars, env_vars, hist_vars, pure_vars, hook_vars,
                   cfg_vars, rx_open, fin, mock, ret, reqs, logq, sup>>

\* lock.read().unwrap() / lock.write().unwrap() returns the guard
LockAcquire(th) ==
    /\ Wants(th)
    /\ LockFree(th)
    /\ lk' = [lk EXCEPT !.held[th] = Append(@, Head(lk.prog[th])),
                        !.prog[th] = Tail(@)]
    /\ UNCHANGED <<store_vars, proc_vars, env_vars, hist_vars, pure_vars, hook_vars,
                   cfg_vars, rx_open, fin, mock, ret, reqs, logq, sup>>

\* the guard goes out of scope; guards are dropped in reverse order of
\* their creation, the last guard of the lock first
LockDrop(th) ==
    /\ lk.prog[th] # <<>>
    /\ Head(lk.prog[th]).op = "drop"
    /\ LET l == Head(lk.prog[th]).lock
           k == CHOOSE k \in 1..Len(lk.held[th]) :
                    /\ lk.held[th][k].lock = l
                    /\ \A m \in (k + 1)..Len(lk.held[th]) : lk.held[th][m].lock # l
       IN  lk' = [lk EXCEPT !.held[th] = SubSeq(@, 1, k - 1) \o SubSeq(@, k + 1, Len(@)),
                            !.prog[th] = Tail(@)]
    /\ UNCHANGED <<store_vars, proc_vars, env_vars, hist_vars, pure_vars, hook_vars,
                   cfg_vars, rx_open, fin, mock, ret, reqs, logq, sup>>

NextLocks ==
    \/ \E th \in LockTasks : LockBegin(th)
    \/ \E th \in LockTasks : LockAcquire(th)
    \/ \E th \in LockTasks : LockDrop(th)

SpecLocks == InitLocks /\ [][NextLocks]_vars

\* th waits for u: u holds a guard that keeps th from taking the lock it
\* wants, or th wants to read a lock that u waits to write (a RwLock may
\* make new readers wait behind a waiting writer)
WaitsFor(th, u) ==
    /\ Wants(th)
    /\ LET want == Head(lk.prog[th])
       IN  \/ Holds(u, want.lock, TRUE)
           \/ want.op = "write" /\ Holds(u, want.lock, FALSE)
           \/ /\ want.op = "read"
              /\ u # th
              /\ Wants(u)
              /\ Head(lk.prog[u]) = Wr(want.lock)
              /\ ~LockFree(u)

RECURSIVE WaitClosure(_, _)
WaitClosure(S, n) ==
    IF n = 0 THEN S
    ELSE WaitClosure(S \cup {u \in LockTasks : \E t \in S : WaitsFor(t, u)}, n - 1)

\* th is on a cycle of waiting tasks
Deadlocked(th) ==
    th \in WaitClosure({u \in LockTasks : WaitsFor(th, u)}, Cardinality(LockTasks))

\* C37: lock order.  Every task holds its guards in the order chain map,
\* config, watch-set or token-set, token-decimals map, and no interleaving of
\* the ingestor, the confirmator, the janitor and the store operations
\* reaches a cycle of tasks that wait for each other.
C37_LockOrder ==
    /\ \A th \in LockTasks :
           \A k \in 1..(Len(lk.held[th]) - 1) :
               LockRank(lk.held[th][k].lock) < LockRank(lk.held[th][k + 1].lock)
    /\ \A th \in LockTasks : ~Deadlocked(th)

\* the store holds the chain map, a config and its token-set and waits for
\* the token-decimals map while another task waits for a lock of the store
C37_Witness ==
    /\ Len(lk.held["store"]) = 3
    /\ Wants("store")
    /\ Head(lk.prog["store"]) = Wr("token_decimals")
    /\ \E th \in LockTasks \ {"store"} : WaitsFor(th, "store")

\* C38: the watch-set covers the Pending invoices.  Once add_watch_address
\* of a create request has returned, the address of its invoice is in the
\* watch-set for as long as the invoice is Pending, also when the request
\* took an address index that an Expired or Paid invoice has freed.
C38_WatchCoversPending ==
    \A k \in 1..Len(cre) :
        (cre[k].pc = "done" /\ cre[k].id # 0 /\ invoices[cre[k].id].status = "Pending")
            => invoices[cre[k].id].address \in watch_addresses

(***************************************************************************)
(* SpecOverpay: SpecParts with one native transfer more, so that the       *)
(* invoice of amount 2 is overpaid: a payment of the invoice can be        *)
(* Confirming when another payment makes the invoice Paid.                 *)
(***************************************************************************)
OverPayers == {n \in 1..(2 * MaxTransfers + 1) : n % 2 = 1}

InitOverpay ==
    /\ base = PersistEvery - 1
    /\ PipelineInit(base)
    /\ required_confirmations \in 0..MaxConfirmations
    /\ block_lag = 0
    /\ cre = <<CreIdle>>
    /\ PureInit
    /\ disp = <<DispIdle>>
    /\ backend \in {"postgres", "mock"}
    /\ payers = OverPayers

SpecOverpay == InitOverpay /\ [][NextParts]_vars

\* C39: InvoicePaid at most once.  For every invoice at most one InvoicePaid
\* job is enqueued, also when more than one payment of the invoice is
\* Confirming at the time the invoice becomes Paid.
C39_PaidOnce ==
    \A i \in 1..Len(invoices) : Cardinality(JobsOf(i, "InvoicePaid")) <= 1

(***************************************************************************)
(* SpecProgress: the dispatcher over both backends with an invoice that    *)
(* has a webhook_url and a webhook_secret or none.  Store calls succeed    *)
(* unless the code makes them fail, every POST returns, the process does   *)
(* not crash.  FairProgress adds the scheduling: the dispatcher loop keeps *)
(* selecting, every spawned task runs, time passes.                        *)
(***************************************************************************)
InitProgress ==
    /\ base = PersistEvery - 1
    /\ PipelineInit(base)
    /\ required_confirmations = 0
    /\ block_lag = 0
    /\ cre = <<CreIdle>>
    /\ slot_busy = Err
    /\ slot_result = None
    /\ slot_called = FALSE
    /\ att_keys = <<>>
    /\ rx_open = TRUE
    /\ fin = <<>>
    /\ mock = <<>>
    /\ ret = <<>>
    /\ reqs = <<>>
    /\ logq = <<>>
    /\ sup = <<>>
    /\ lk = <<>>
    /\ disp = <<DispIdle>>
    /\ backend \in {"postgres", "mock"}
    /\ payers = PartsPayers

\* MockDatabase::select_webhooks_job
MockSelectJobs ==
    /\ backend = "mock"
    /\ SignSelect

\* Postgres::select_webhooks_job: UPDATE webhooks w SET status = 'Processing'
\* FROM invoices i ... RETURNING ..., i.webhook_secret; fetch_all decodes each
\* row into WebhookJob, whose secret_key is a String: a NULL webhook_secret
\* makes the call return Err after the statement has been executed, and the
\* dispatcher logs the error and sleeps 5 s
PgSelectJobs ==
    /\ backend = "postgres"
    /\ LET ids == due_jobs(webhooks, now)
       IN  /\ ids # {}
           /\ webhooks' = mark_processing(webhooks, ids)
           /\ tasks' =
                  IF \E j \in ids : invoices[webhooks[j].invoice_id].webhook_secret = None
                  THEN tasks
                  ELSE tasks \cup
                       {[id |-> j,
                         secret_key |-> invoices[webhooks[j].invoice_id].webhook_secret[1],
                         payload |-> [event_type |-> webhooks[j].event_type,
                                      tx_hash |-> webhooks[j].tx_hash],
                         attempts |-> webhooks[j].attempts,
                         max_retries |-> webhooks[j].max_retries] : j \in ids}
    /\ UNCHANGED <<invoices, payments, lpb_db, required_confirmations, block_lag,
                   proc_vars, env_vars, hist_vars, pure_vars, now, disp, posts,
                   cfg_vars, aux_vars>>

NextProgress ==
    \/ SignAddInvoice
    \/ EnqueueJob
    \/ MockSelectJobs
    \/ PgSelectJobs
    \/ \E t \in tasks : ProcessWebhook(t)
    \/ Elapse

SpecProgress == InitProgress /\ [][NextProgress]_vars

FairProgress ==
    /\ SpecProgress
    /\ WF_vars(MockSelectJobs)
    /\ WF_vars(PgSelectJobs)
    /\ WF_vars(\E t \in tasks : ProcessWebhook(t))
    /\ WF_vars(Elapse)

\* C40: webhook progress.  Every webhook job that is enqueued eventually
\* reaches status Sent or Failed; no job stays in Processing forever, also
\* when its invoice has a webhook_url and no webhook_secret.
C40_WebhookProgress ==
    \A j \in 1..MaxJobs :
        (j <= Len(webhooks)) ~>
            (j <= Len(webhooks) /\ webhooks[j].status \in {"Sent", "Failed"})

====
